---- MODULE Spec2Model ----
(***************************************************************************)
(* A model of the Monkey interpreter (uekann/Monkey): the Pratt parser of  *)
(* src/src/parser.rs working on the token stream of src/src/lexer.rs, and  *)
(* the tree-walking evaluator of src/src/evaluator.rs with the values and  *)
(* the environment of src/src/object.rs.                                   *)
(*                                                                         *)
(* AST nodes, tokens and runtime values are records tagged by the name of  *)
(* the Rust enum variant they stand for.  i64 is scaled down to the range  *)
(* MinInt..MaxInt so that overflow is reachable.                           *)
(***************************************************************************)
EXTENDS Integers, Sequences, FiniteSets, TLC

VARIABLES
    toks,            \* the tokens the lexer hands to the parser, without the EOF
    pos,             \* index in toks of Parser.cur_token (beyond Len: EOF)
    statements,      \* Program.statements built so far by parse_program
    pstatus,         \* "parsing" | "ok" | "err": where parse_program is
    perr,            \* the parse error, once pstatus = "err"
    program,         \* the Program handed to eval_program
    idx,             \* index of the next statement of eval_program's for loop
    env,             \* eval_program's Environment
    result,          \* eval_program's local `result`
    estatus,         \* "idle" | "running" | "ok" | "err" | "panic"
    out,             \* what eval_program handed to its caller (a value or an error)
    log,             \* history: every node eval_statement/eval_expression was called on
    overflow_checks, \* the build: TRUE panics on i64 overflow (debug), FALSE wraps
    operands,        \* operator and operand values handed to an operator helper
    applied,         \* the helper that was called on operands, and what it returned
    lexer,           \* the Lexer: input, position, read_position, symbol
    calls,           \* history: every next_token call, the Lexer before and after it
    iter             \* a second Lexer consumed as an Iterator, and the items it yielded

vars == <<toks, pos, statements, pstatus, perr, program, idx, env, result,
          estatus, out, log, overflow_checks, operands, applied, lexer, calls,
          iter>>

parserVars == <<toks, pos, statements, pstatus, perr>>
evalVars == <<idx, env, result, estatus, out, log>>
helperVars == <<operands, applied>>
lexerVars == <<lexer, calls, iter>>

----------------------------------------------------------------------------
(* Bounds *)

\* i64::MAX, scaled down; i64::MIN is MinInt
MaxInt == 7
MinInt == -MaxInt - 1

\* the largest number of binary operators of a generated operator expression
MaxOps == 2

\* the largest number of statements of a generated sequence of let statements
MaxLets == 3

\* the largest number of scopes of a generated chain of environments
MaxDepth == 2
\* the longest function-parameter list, in tokens
MaxParams == 3
\* the longest source handed to the Lexer, in characters
MaxSource == 3
\* the next_token calls made after the one that can first reach the end
MaxMore == 2
\* the longest token stream handed to the parser as it comes
MaxTokens == 4

None == [type |-> "None"]

\* F applied to the value of v, which is computed once
Bind(v, F(_)) == CHOOSE y \in {F(x) : x \in {v}} : TRUE

----------------------------------------------------------------------------
(* object.rs: Object *)

Integer(i) == [kind |-> "Integer", int |-> i]
Boolean(b) == [kind |-> "Boolean", bool |-> b]
Null == [kind |-> "Null"]
ReturnValue(o) == [kind |-> "ReturnValue", obj |-> o]
FunctionObject(ps, b, e) ==
    [kind |-> "FunctionObject", parameters |-> ps, body |-> b, env |-> e]

\* Result<Object> of Object::cast_to_boolean
CastOk(o) == [ok |-> TRUE, val |-> o]
CastErr(o) == [ok |-> FALSE, err |-> [msg |-> "cannot cast to boolean", obj |-> o]]

RECURSIVE cast_to_boolean(_)
RECURSIVE cast_to_boolean_nonzero(_)
RECURSIVE cast_to_boolean_shallow(_)

\* a coercion that takes every integer for true
cast_to_boolean_nonzero(self) ==
    CASE self.kind = "Integer" -> CastOk(Boolean(TRUE))
      [] self.kind = "Boolean" -> CastOk(Boolean(self.bool))
      [] self.kind = "Null" -> CastOk(Boolean(FALSE))
      [] self.kind = "ReturnValue" -> cast_to_boolean_nonzero(self.obj)
      [] OTHER -> CastErr(self)

\* a coercion that takes a ReturnValue for true without looking into it
cast_to_boolean_shallow(self) ==
    CASE self.kind = "Integer" -> CastOk(Boolean(self.int # 0))
      [] self.kind = "Boolean" -> CastOk(Boolean(self.bool))
      [] self.kind = "Null" -> CastOk(Boolean(FALSE))
      [] self.kind = "ReturnValue" -> CastOk(Boolean(TRUE))
      [] OTHER -> CastErr(self)

cast_to_boolean(self) ==
    CASE self.kind = "Integer" -> CastOk(Boolean(self.int # 0))
      [] self.kind = "Boolean" -> CastOk(Boolean(self.bool))
      [] self.kind = "Null" -> CastOk(Boolean(FALSE))
      [] self.kind = "ReturnValue" -> cast_to_boolean(self.obj)
      [] OTHER -> CastErr(self)

----------------------------------------------------------------------------
(* object.rs: Environment *)

EmptyStore == [n \in {} |-> Null]

Environment_new == [store |-> EmptyStore, outer |-> None]

\* Option<&Object>: None or the object
RECURSIVE Environment_get(_, _)
Environment_get(self, name) ==
    IF name \in DOMAIN self.store
    THEN self.store[name]
    ELSE IF self.outer # None
         THEN Environment_get(self.outer, name)
         ELSE None

\* a set that writes to the nearest scope that binds the name already
RECURSIVE Environment_set_through(_, _, _)
Environment_set_through(self, name, value) ==
    IF name \notin DOMAIN self.store /\ self.outer # None
       /\ Environment_get(self.outer, name) # None
    THEN [self EXCEPT !.outer = Environment_set_through(self.outer, name, value)]
    ELSE [self EXCEPT !.store =
            [n \in (DOMAIN self.store) \cup {name} |->
                IF n = name THEN value ELSE self.store[n]]]

\* a set that starts a new store
Environment_set_fresh(self, name, value) ==
    [self EXCEPT !.store = [n \in {name} |-> value]]

Environment_set(self, name, value) ==
    [self EXCEPT !.store =
        [n \in (DOMAIN self.store) \cup {name} |->
            IF n = name THEN value ELSE self.store[n]]]

----------------------------------------------------------------------------
(* token.rs, ast.rs *)

\* a literal is the sequence of its characters
Token(t, lit) == [type |-> t, literal |-> lit]
EOF == Token("EOF", <<>>)

Identifier(n) == [type |-> "Identifier", name |-> n]
IntegerLiteral(i) == [type |-> "IntegerLiteral", value |-> i]
BooleanLiteral(b) == [type |-> "Boolean", value |-> b]
PrefixExpression(op, r) == [type |-> "PrefixExpression", operator |-> op, right |-> r]
InfixExpression(l, op, r) ==
    [type |-> "InfixExpression", left |-> l, operator |-> op, right |-> r]
IfExpression(c, cons, alt) ==
    [type |-> "IfExpression", condition |-> c, consequence |-> cons, alternative |-> alt]
FunctionLiteral(ps, b) == [type |-> "FunctionLiteral", parameters |-> ps, body |-> b]
CallExpression(f, as) == [type |-> "CallExpression", function |-> f, arguments |-> as]

EmptyStatement == [type |-> "EmptyStatement"]
LetStatement(n, v) == [type |-> "LetStatement", name |-> n, value |-> v]
ReturnStatement(e) == [type |-> "ReturnStatement", expr |-> e]
ExpressionStatement(e) == [type |-> "ExpressionStatement", expr |-> e]
BlockStatement(ss) == [type |-> "BlockStatement", statements |-> ss]

Program(ss) == [statements |-> ss]

----------------------------------------------------------------------------
(* lexer.rs.  The input is the sequence of its characters; position and
   read_position are byte offsets into it, as in the &str.  A character is
   written as itself, or as U+hhhh: U+0001 is a control character, U+0663 the
   Arabic-Indic digit three and U+00B2 the superscript two. *)

\* char::len_utf8
len_utf8(c) == IF c \in {"é", "U+0663", "U+00B2"} THEN 2 ELSE 1

AsciiDigits == {"0", "1", "2", "3", "4", "5", "6", "7", "8", "9"}
AsciiPunctuation ==
    {"!", "#", "$", "%", "&", "(", ")", "*", "+", ",", "-", ".", "/", ":",
     ";", "<", "=", ">", "?", "@", "[", "]", "^", "_", "{", "|", "}", "~"}
\* (the quotes, the backslash and the backquote are left out)
WhitespaceChars == {" ", "\t", "\n"}
ControlChars == {"\t", "\n", "U+0001"}
\* char::is_numeric: the decimal digits of every script and other numeric characters
NumericChars == AsciiDigits \cup {"U+0663", "U+00B2"}

can_use_as_ident(c) ==
    ~(c \in AsciiDigits \/ c \in WhitespaceChars \/ c \in ControlChars
      \/ c \in AsciiPunctuation)

\* the byte offset of the i-th character (of the end of the input for Len + 1)
RECURSIVE ByteOffset(_, _)
ByteOffset(input, i) ==
    IF i = 1 THEN 0 ELSE ByteOffset(input, i - 1) + len_utf8(input[i - 1])

\* &input[b..] can be taken: b is a character boundary of the input, its end
\* included; any other b makes the slice expression panic
Sliceable(input, b) == \E i \in 1..(Len(input) + 1) : ByteOffset(input, i) = b
CharIndex(input, b) == CHOOSE i \in 1..(Len(input) + 1) : ByteOffset(input, i) = b

\* input[b..].char_indices().next(), as <<c>> for Some(c) and <<>> for None
FirstChar(input, b) ==
    IF CharIndex(input, b) <= Len(input) THEN <<input[CharIndex(input, b)]>> ELSE <<>>

\* &input[a..b]
Slice(input, a, b) == SubSeq(input, CharIndex(input, a), CharIndex(input, b) - 1)

Lexer(input, position, read_position, symbol) ==
    [input |-> input, position |-> position, read_position |-> read_position,
     symbol |-> symbol, panicked |-> FALSE]

Panic(l) == [l EXCEPT !.panicked = TRUE]

read_symbol(l) ==
    IF l.panicked \/ ~Sliceable(l.input, l.read_position) THEN Panic(l)
    ELSE [l EXCEPT !.position = l.read_position,
                   !.read_position =
                       IF FirstChar(l.input, l.read_position) = <<>> THEN @ + 1
                       ELSE @ + len_utf8(FirstChar(l.input, l.read_position)[1]),
                   !.symbol = FirstChar(l.input, l.read_position)]

Lexer_new(input) == read_symbol(Lexer(input, 0, 0, <<>>))

peak_symbol(l) == FirstChar(l.input, l.read_position)

\* the loop of read_identifier going on over ASCII digits as well
RECURSIVE identifier_loop_digits(_)
identifier_loop_digits(l) ==
    IF l.panicked \/ ~Sliceable(l.input, l.read_position) THEN Panic(l)
    ELSE IF peak_symbol(l) # <<>>
            /\ (can_use_as_ident(peak_symbol(l)[1]) \/ peak_symbol(l)[1] \in AsciiDigits)
    THEN identifier_loop_digits(read_symbol(l))
    ELSE l

\* the while loop of read_identifier
RECURSIVE identifier_loop(_)
identifier_loop(l) ==
    IF l.panicked \/ ~Sliceable(l.input, l.read_position) THEN Panic(l)
    ELSE IF peak_symbol(l) # <<>> /\ can_use_as_ident(peak_symbol(l)[1])
    THEN identifier_loop(read_symbol(l))
    ELSE l

read_identifier(l) ==
    Bind(identifier_loop(l), LAMBDA m :
    [lexer |-> m,
     literal |-> IF m.panicked THEN <<>> ELSE Slice(l.input, l.position, m.read_position)])

\* the while loop of read_number
RECURSIVE number_loop(_)
number_loop(l) ==
    IF l.panicked \/ ~Sliceable(l.input, l.read_position) THEN Panic(l)
    ELSE IF peak_symbol(l) # <<>> /\ peak_symbol(l)[1] \in NumericChars
    THEN number_loop(read_symbol(l))
    ELSE l

read_number(l) ==
    Bind(number_loop(l), LAMBDA m :
    [lexer |-> m,
     literal |-> IF m.panicked THEN <<>> ELSE Slice(l.input, l.position, m.read_position)])

\* skip_whitespace reading once more behind the whitespace
RECURSIVE skip_whitespace_overrun(_)
skip_whitespace_overrun(l) ==
    IF ~l.panicked /\ l.symbol # <<>> /\ l.symbol[1] \in WhitespaceChars
    THEN skip_whitespace_overrun(read_symbol(l))
    ELSE read_symbol(l)

RECURSIVE skip_whitespace(_)
skip_whitespace(l) ==
    IF ~l.panicked /\ l.symbol # <<>> /\ l.symbol[1] \in WhitespaceChars
    THEN skip_whitespace(read_symbol(l))
    ELSE l

\* TokenType::lookup_ident of token.rs: `fn` and `let` are its only keywords
lookup_ident(ident) ==
    CASE ident = <<"f", "n">> -> "FUNCTION"
      [] ident = <<"l", "e", "t">> -> "LET"
      [] OTHER -> "IDENT"

\* the one-character tokens of next_token's match
SymbolTypes ==
    [c \in {"+", "-", "*", "/", "<", ">", ",", ";", "(", ")", "{", "}"} |->
        CASE c = "+" -> "PLUS" [] c = "-" -> "MINUS" [] c = "*" -> "ASTERISK"
          [] c = "/" -> "SLASH" [] c = "<" -> "LT" [] c = ">" -> "GT"
          [] c = "," -> "COMMA" [] c = ";" -> "SEMICOLON" [] c = "(" -> "LPAREN"
          [] c = ")" -> "RPAREN" [] c = "{" -> "LBRACE" [] c = "}" -> "RBRACE"]

\* what a call hands back: the Lexer after it and the token (None on a panic)
Returned(l, t) == [lexer |-> l, token |-> IF l.panicked THEN None ELSE t]

\* `self.read_symbol(); token` at the end of next_token
Scanned(l, t) == Returned(read_symbol(l), t)

\* the `_` arm of next_token's match: the literal is input[position..read_position]
\* with the rest of the input taken for the literal
illegal_token_rest(l) ==
    Scanned(l, Token("ILLEGAL", SubSeq(l.input, CharIndex(l.input, l.position), Len(l.input))))

illegal_token(l) ==
    Scanned(l, Token("ILLEGAL", Slice(l.input, l.position, l.read_position)))

\* the two-character token emitted without reading its second character
one_or_two_unread(l, one, two) ==
    IF ~Sliceable(l.input, l.read_position) THEN Returned(Panic(l), None)
    ELSE IF peak_symbol(l) = <<"=">>
    THEN Scanned(l, Token(two, <<l.symbol[1], "=">>))
    ELSE Scanned(l, Token(one, l.symbol))

\* `=` or `!`, with or without a following `=`
one_or_two(l, one, two) ==
    IF ~Sliceable(l.input, l.read_position) THEN Returned(Panic(l), None)
    ELSE IF peak_symbol(l) = <<"=">>
    THEN Scanned(read_symbol(l), Token(two, <<l.symbol[1], "=">>))
    ELSE Scanned(l, Token(one, l.symbol))

\* next_token whose end-of-input arm does not return early: read_symbol is
\* called once more
next_token_match_advancing(l) ==
    IF l.panicked THEN Returned(l, None)
    ELSE IF l.symbol = <<>> THEN Scanned(l, Token("EOF", <<>>))
    ELSE IF l.symbol = <<"=">> THEN one_or_two(l, "ASSIGN", "EQ")
    ELSE IF l.symbol = <<"!">> THEN one_or_two(l, "BANG", "NOT_EQ")
    ELSE IF l.symbol[1] \in DOMAIN SymbolTypes
    THEN Scanned(l, Token(SymbolTypes[l.symbol[1]], l.symbol))
    ELSE IF l.symbol[1] \in AsciiDigits
    THEN Bind(read_number(l), LAMBDA r : Scanned(r.lexer, Token("INT", r.literal)))
    ELSE IF can_use_as_ident(l.symbol[1])
    THEN Bind(read_identifier(l), LAMBDA r :
              Scanned(r.lexer, Token(lookup_ident(r.literal), r.literal)))
    ELSE illegal_token(l)

\* the match of next_token, on the Lexer after skip_whitespace
next_token_match(l) ==
    IF l.panicked THEN Returned(l, None)
    ELSE IF l.symbol = <<>> THEN Returned(l, Token("EOF", <<>>))
    ELSE IF l.symbol = <<"=">> THEN one_or_two(l, "ASSIGN", "EQ")
    ELSE IF l.symbol = <<"!">> THEN one_or_two(l, "BANG", "NOT_EQ")
    ELSE IF l.symbol[1] \in DOMAIN SymbolTypes
    THEN Scanned(l, Token(SymbolTypes[l.symbol[1]], l.symbol))
    ELSE IF l.symbol[1] \in AsciiDigits
    THEN Bind(read_number(l), LAMBDA r : Scanned(r.lexer, Token("INT", r.literal)))
    ELSE IF can_use_as_ident(l.symbol[1])
    THEN Bind(read_identifier(l), LAMBDA r :
              Scanned(r.lexer, Token(lookup_ident(r.literal), r.literal)))
    ELSE illegal_token(l)

next_token(l) == next_token_match(skip_whitespace(l))

\* Iterator::next yielding the end-of-input token as an item before it ends
Iterator_next_inclusive(l) ==
    Bind(next_token(l), LAMBDA token :
    [lexer |-> token.lexer, item |-> <<token.token>>, last |-> token.token.type = "EOF"])

\* Iterator::next: the Option is <<>> for None and <<token>> for Some(token);
\* last says that the iteration ends with this call
Iterator_next(l) ==
    Bind(next_token(l), LAMBDA token :
    IF token.token.type = "EOF"
    THEN [lexer |-> token.lexer, item |-> <<>>, last |-> TRUE]
    ELSE [lexer |-> token.lexer, item |-> <<token.token>>, last |-> FALSE])

----------------------------------------------------------------------------
(* parser.rs *)

LOWEST == 0
EQUALS == 1
LESSGREATER == 2
SUM == 3
PRODUCT == 4
PREFIX == 5
CALL == 6

from_token_type(t) ==
    CASE t \in {"EQ", "NOT_EQ"} -> EQUALS
      [] t \in {"LT", "GT"} -> LESSGREATER
      [] t \in {"PLUS", "MINUS"} -> SUM
      [] t \in {"SLASH", "ASTERISK"} -> PRODUCT
      [] t = "LPAREN" -> CALL
      [] OTHER -> LOWEST

\* Parser.cur_token is TokAt(ts, p) and Parser.peek_token is TokAt(ts, p + 1):
\* the lexer returns EOF for ever once the input is used up
TokAt(ts, p) == IF p <= Len(ts) THEN ts[p] ELSE EOF

\* Result<T> of the parse functions, with the position of cur_token on return
PResult(v, p) == [ok |-> TRUE, val |-> v, pos |-> p]
PError(e, p) == [ok |-> FALSE, err |-> e, pos |-> p]

ExpectedErr(t, got) == [msg |-> "expected next token to be", expected |-> t, got |-> got]

\* ensure!(self.expect_peek(t), ...): advances when the lookahead is t
expect_peek(ts, p, t) ==
    IF TokAt(ts, p + 1).type = t
    THEN PResult(TRUE, p + 1)
    ELSE PError(ExpectedErr(t, TokAt(ts, p + 1).type), p)

PrefixTypes ==
    {"IDENT", "INT", "TRUE", "FALSE", "BANG", "MINUS", "LPAREN", "IF", "FUNCTION"}

\* Option<fn>: the token type names its prefix function, "None" when there is none
get_prefix_parse_fn(t) == IF t \in PrefixTypes THEN t ELSE "None"

InfixTypes == {"PLUS", "MINUS", "SLASH", "ASTERISK", "EQ", "NOT_EQ", "LT", "GT"}

get_infix_parse_fn(t) ==
    IF t \in InfixTypes THEN "parse_infix_expression"
    ELSE IF t = "LPAREN" THEN "parse_call_expression"
    ELSE "None"

Digits == <<"0", "1", "2", "3", "4", "5", "6", "7", "8", "9">>
IsAsciiDigit(c) == \E d \in DOMAIN Digits : Digits[d] = c
DigitVal(c) == (CHOOSE d \in DOMAIN Digits : Digits[d] = c) - 1

\* str::parse::<i64> on the first n characters of a literal: None when it is not
\* a number that fits (the accumulator never leaves the range before failing)
Some(v) == [type |-> "Some", val |-> v]

RECURSIVE ParseI64(_, _)
ParseI64(lit, n) ==
    IF n = 0 THEN Some(0)
    ELSE Bind(ParseI64(lit, n - 1), LAMBDA acc :
         IF acc = None \/ ~IsAsciiDigit(lit[n]) THEN None
         ELSE IF acc.val * 10 + DigitVal(lit[n]) > MaxInt THEN None
         ELSE Some(acc.val * 10 + DigitVal(lit[n])))

RECURSIVE parse_statement(_, _)
RECURSIVE parse_block_statement(_, _)
RECURSIVE parse_expression(_, _, _)
RECURSIVE parse_prefix(_, _)
RECURSIVE parse_infix(_, _, _)
RECURSIVE parse_call_arguments(_, _)

parse_identifier(ts, p) == PResult(Identifier(TokAt(ts, p).literal), p)

parse_integer_literal(ts, p) ==
    Bind(ParseI64(TokAt(ts, p).literal, Len(TokAt(ts, p).literal)), LAMBDA value :
    IF value = None \/ Len(TokAt(ts, p).literal) = 0
    THEN PError([msg |-> "ParseIntError", literal |-> TokAt(ts, p).literal], p)
    ELSE PResult(IntegerLiteral(value.val), p))

parse_boolean(ts, p) == PResult(BooleanLiteral(TokAt(ts, p).type = "TRUE"), p)

parse_prefix_expression(ts, p) ==
    IF TokAt(ts, p).type \notin {"BANG", "MINUS"}
    THEN PError([msg |-> "expected token to be BANG or MINUS",
                 got |-> TokAt(ts, p).type], p)
    ELSE Bind(parse_expression(ts, p + 1, PREFIX), LAMBDA right :
         IF ~right.ok THEN right
         ELSE PResult(PrefixExpression(TokAt(ts, p).literal, right.val), right.pos))

parse_grouped_expression(ts, p) ==
    Bind(parse_expression(ts, p + 1, LOWEST), LAMBDA expression :
    IF ~expression.ok THEN expression ELSE
    Bind(expect_peek(ts, expression.pos, "RPAREN"), LAMBDA rp :
    IF ~rp.ok THEN rp ELSE PResult(expression.val, rp.pos)))

parse_if_expression(ts, p) ==
    Bind(expect_peek(ts, p, "LPAREN"), LAMBDA lp :
    IF ~lp.ok THEN lp ELSE
    Bind(parse_expression(ts, lp.pos + 1, LOWEST), LAMBDA condition :
    IF ~condition.ok THEN condition ELSE
    Bind(expect_peek(ts, condition.pos, "RPAREN"), LAMBDA rp :
    IF ~rp.ok THEN rp ELSE
    Bind(expect_peek(ts, rp.pos, "LBRACE"), LAMBDA lb :
    IF ~lb.ok THEN lb ELSE
    Bind(parse_block_statement(ts, lb.pos), LAMBDA consequence :
    IF ~consequence.ok THEN consequence ELSE
    IF TokAt(ts, consequence.pos + 1).type = "ELSE"
    THEN Bind(expect_peek(ts, consequence.pos + 1, "LBRACE"), LAMBDA lb2 :
         IF ~lb2.ok THEN lb2 ELSE
         Bind(parse_block_statement(ts, lb2.pos), LAMBDA alt :
         IF ~alt.ok THEN alt
         ELSE PResult(IfExpression(condition.val, consequence.val, alt.val), alt.pos)))
    ELSE PResult(IfExpression(condition.val, consequence.val, None),
                 consequence.pos))))))

\* the while loop of parse_function_parameters
RECURSIVE parameters_loop(_, _, _)
parameters_loop(ts, p, identifiers) ==
    IF TokAt(ts, p + 1).type = "COMMA"
    THEN parameters_loop(ts, p + 2,
                         Append(identifiers, Identifier(TokAt(ts, p + 2).literal)))
    ELSE Bind(expect_peek(ts, p, "RPAREN"), LAMBDA rp :
         IF ~rp.ok THEN rp ELSE PResult(identifiers, rp.pos))

parse_function_parameters(ts, p) ==
    IF TokAt(ts, p + 1).type = "RPAREN"
    THEN PResult(<<>>, p + 1)
    ELSE parameters_loop(ts, p + 1, <<Identifier(TokAt(ts, p + 1).literal)>>)

parse_function_literal(ts, p) ==
    Bind(expect_peek(ts, p, "LPAREN"), LAMBDA lp :
    IF ~lp.ok THEN lp ELSE
    Bind(parse_function_parameters(ts, lp.pos), LAMBDA parameters :
    IF ~parameters.ok THEN parameters ELSE
    Bind(expect_peek(ts, parameters.pos, "LBRACE"), LAMBDA lb :
    IF ~lb.ok THEN lb ELSE
    Bind(parse_block_statement(ts, lb.pos), LAMBDA body :
    IF ~body.ok THEN body
    ELSE PResult(FunctionLiteral(parameters.val, body.val), body.pos)))))

cur_precedence(ts, p) == from_token_type(TokAt(ts, p).type)

\* the right operand parsed from the lowest precedence: operators group to the right
parse_infix_expression_lowest(ts, p, left) ==
    Bind(parse_expression(ts, p + 1, LOWEST), LAMBDA right :
    IF ~right.ok THEN right
    ELSE PResult(InfixExpression(left, TokAt(ts, p).literal, right.val), right.pos))

parse_infix_expression(ts, p, left) ==
    Bind(parse_expression(ts, p + 1, cur_precedence(ts, p)), LAMBDA right :
    IF ~right.ok THEN right
    ELSE PResult(InfixExpression(left, TokAt(ts, p).literal, right.val), right.pos))

\* the while loop of parse_call_arguments
RECURSIVE arguments_loop(_, _, _)
arguments_loop(ts, p, args) ==
    IF TokAt(ts, p + 1).type = "COMMA"
    THEN Bind(parse_expression(ts, p + 2, LOWEST), LAMBDA a :
         IF ~a.ok THEN a ELSE arguments_loop(ts, a.pos, Append(args, a.val)))
    ELSE Bind(expect_peek(ts, p, "RPAREN"), LAMBDA rp :
         IF ~rp.ok THEN rp ELSE PResult(args, rp.pos))

parse_call_arguments(ts, p) ==
    IF TokAt(ts, p + 1).type = "RPAREN"
    THEN PResult(<<>>, p + 1)
    ELSE Bind(parse_expression(ts, p + 1, LOWEST), LAMBDA a :
         IF ~a.ok THEN a ELSE arguments_loop(ts, a.pos, <<a.val>>))

parse_call_expression(ts, p, function) ==
    Bind(parse_call_arguments(ts, p), LAMBDA arguments :
    IF ~arguments.ok THEN arguments
    ELSE PResult(CallExpression(function, arguments.val), arguments.pos))

parse_prefix(ts, p) ==
    CASE get_prefix_parse_fn(TokAt(ts, p).type) = "None" ->
            PError([msg |-> "no prefix parse function for",
                    got |-> TokAt(ts, p).type], p)
      [] get_prefix_parse_fn(TokAt(ts, p).type) = "IDENT" -> parse_identifier(ts, p)
      [] get_prefix_parse_fn(TokAt(ts, p).type) = "INT" -> parse_integer_literal(ts, p)
      [] get_prefix_parse_fn(TokAt(ts, p).type) \in {"TRUE", "FALSE"} ->
            parse_boolean(ts, p)
      [] get_prefix_parse_fn(TokAt(ts, p).type) \in {"BANG", "MINUS"} ->
            parse_prefix_expression(ts, p)
      [] get_prefix_parse_fn(TokAt(ts, p).type) = "LPAREN" ->
            parse_grouped_expression(ts, p)
      [] get_prefix_parse_fn(TokAt(ts, p).type) = "IF" -> parse_if_expression(ts, p)
      [] get_prefix_parse_fn(TokAt(ts, p).type) = "FUNCTION" ->
            parse_function_literal(ts, p)

parse_infix(ts, p, left) ==
    CASE get_infix_parse_fn(TokAt(ts, p).type) = "None" -> PResult(left, p)
      [] get_infix_parse_fn(TokAt(ts, p).type) = "parse_infix_expression" ->
            parse_infix_expression(ts, p, left)
      [] get_infix_parse_fn(TokAt(ts, p).type) = "parse_call_expression" ->
            parse_call_expression(ts, p, left)

\* the while loop of parse_expression
RECURSIVE infix_loop(_, _, _, _)
infix_loop(ts, p, precedence, left) ==
    IF /\ TokAt(ts, p + 1).type # "SEMICOLON"
       /\ precedence < from_token_type(TokAt(ts, p + 1).type)
    THEN Bind(parse_infix(ts, p + 1, left), LAMBDA l :
         IF ~l.ok THEN l ELSE infix_loop(ts, l.pos, precedence, l.val))
    ELSE PResult(left, p)

parse_expression(ts, p, precedence) ==
    Bind(parse_prefix(ts, p), LAMBDA prefix :
    IF ~prefix.ok THEN prefix
    ELSE infix_loop(ts, prefix.pos, precedence, prefix.val))

\* a let that takes the `;` when there is one
parse_let_statement_lenient(ts, p) ==
    Bind(expect_peek(ts, p, "IDENT"), LAMBDA id :
    IF ~id.ok THEN id ELSE
    Bind(expect_peek(ts, id.pos, "ASSIGN"), LAMBDA as :
    IF ~as.ok THEN as ELSE
    Bind(parse_expression(ts, as.pos + 1, LOWEST), LAMBDA value :
    IF ~value.ok THEN value
    ELSE PResult(LetStatement(TokAt(ts, id.pos).literal, value.val),
                 IF TokAt(ts, value.pos + 1).type = "SEMICOLON"
                 THEN value.pos + 1 ELSE value.pos))))

parse_let_statement(ts, p) ==
    Bind(expect_peek(ts, p, "IDENT"), LAMBDA id :
    IF ~id.ok THEN id ELSE
    Bind(expect_peek(ts, id.pos, "ASSIGN"), LAMBDA as :
    IF ~as.ok THEN as ELSE
    Bind(parse_expression(ts, as.pos + 1, LOWEST), LAMBDA value :
    IF ~value.ok THEN value ELSE
    Bind(expect_peek(ts, value.pos, "SEMICOLON"), LAMBDA semi :
    IF ~semi.ok THEN semi
    ELSE PResult(LetStatement(TokAt(ts, id.pos).literal, value.val), semi.pos)))))

parse_return_statement(ts, p) ==
    Bind(parse_expression(ts, p + 1, LOWEST), LAMBDA value :
    IF ~value.ok THEN value ELSE
    Bind(expect_peek(ts, value.pos, "SEMICOLON"), LAMBDA semi :
    IF ~semi.ok THEN semi
    ELSE PResult(ReturnStatement(value.val), semi.pos)))

\* parse_expression_statement recovering from a failed expression: the token is
\* skipped and parsing goes on with the next statement
parse_expression_statement_recovering(ts, p) ==
    Bind(parse_expression(ts, p, LOWEST), LAMBDA expression :
    IF ~expression.ok THEN PResult(ExpressionStatement(Identifier(<<>>)), expression.pos)
    ELSE PResult(ExpressionStatement(expression.val),
                 IF TokAt(ts, expression.pos + 1).type = "SEMICOLON"
                 THEN expression.pos + 1 ELSE expression.pos))

parse_expression_statement(ts, p) ==
    Bind(parse_expression(ts, p, LOWEST), LAMBDA expression :
    IF ~expression.ok THEN expression
    ELSE PResult(ExpressionStatement(expression.val),
                 IF TokAt(ts, expression.pos + 1).type = "SEMICOLON"
                 THEN expression.pos + 1 ELSE expression.pos))

\* the while loop of parse_block_statement
RECURSIVE block_loop(_, _, _)
block_loop(ts, p, stmts) ==
    IF TokAt(ts, p).type # "RBRACE" /\ TokAt(ts, p).type # "EOF"
    THEN Bind(parse_statement(ts, p), LAMBDA stmt :
         IF ~stmt.ok THEN stmt
         ELSE block_loop(ts, stmt.pos + 1,
                         IF stmt.val # EmptyStatement
                         THEN Append(stmts, stmt.val) ELSE stmts))
    ELSE PResult(BlockStatement(stmts), p)

\* a block whose loop is followed by one more next_token
parse_block_statement_past(ts, p) ==
    Bind(block_loop(ts, p + 1, <<>>), LAMBDA block :
    IF ~block.ok THEN block ELSE PResult(block.val, block.pos + 1))

parse_block_statement(ts, p) == block_loop(ts, p + 1, <<>>)

parse_statement(ts, p) ==
    CASE TokAt(ts, p).type = "LET" -> parse_let_statement(ts, p)
      [] TokAt(ts, p).type = "RETURN" -> parse_return_statement(ts, p)
      [] TokAt(ts, p).type = "LBRACE" -> parse_block_statement(ts, p)
      [] OTHER -> parse_expression_statement(ts, p)

\* parse_program as a function: the loop of the actions below, run to its end
RECURSIVE parse_program_from(_, _, _)
parse_program_from(ts, p, stmts) ==
    IF TokAt(ts, p).type # "EOF"
    THEN Bind(parse_statement(ts, p), LAMBDA stmt :
         IF ~stmt.ok THEN stmt
         ELSE parse_program_from(ts, stmt.pos + 1,
                                 IF stmt.val # EmptyStatement
                                 THEN Append(stmts, stmt.val) ELSE stmts))
    ELSE PResult(Program(stmts), p)

parse_program(ts) == parse_program_from(ts, 1, <<>>)

----------------------------------------------------------------------------
(* evaluator.rs *)

\* Result<Object> of the operator helpers: a value, an anyhow error, or a panic
POk(o) == [tag |-> "ok", val |-> o]
PErr(e) == [tag |-> "err", val |-> e]
PPanic(m) == [tag |-> "panic", val |-> [msg |-> m]]

\* Result<Object> of eval_statement / eval_expression, with the Environment
\* they were handed by &mut as it is when they return, and the call history
Ok(o, e, l) == [tag |-> "ok", val |-> o, env |-> e, log |-> l]
Fail(r, e, l) == [tag |-> r.tag, val |-> r.val, env |-> e, log |-> l]

InRange(x) == x >= MinInt /\ x <= MaxInt
Wrap(x) == ((x - MinInt) % (MaxInt - MinInt + 1)) + MinInt

\* i64 + - * and unary -: a panic with overflow checks, two's complement without
Checked(x) ==
    IF InRange(x) THEN POk(Integer(x))
    ELSE IF overflow_checks THEN PPanic("arithmetic overflow")
    ELSE POk(Integer(Wrap(x)))

Abs(x) == IF x < 0 THEN -x ELSE x

\* a division that rounds toward minus infinity
Div_floor(left, right) ==
    IF right = 0 THEN PPanic("attempt to divide by zero")
    ELSE IF left = MinInt /\ right = -1 THEN PPanic("attempt to divide with overflow")
    ELSE POk(Integer(left \div right))

\* i64 /: truncates toward zero; panics on a zero divisor and on MIN / -1
Div(left, right) ==
    IF right = 0 THEN PPanic("attempt to divide by zero")
    ELSE IF left = MinInt /\ right = -1 THEN PPanic("attempt to divide with overflow")
    ELSE POk(Integer(IF (left < 0) = (right < 0)
                     THEN Abs(left) \div Abs(right)
                     ELSE -(Abs(left) \div Abs(right))))

RECURSIVE eval_bang_prefix_expression(_)
eval_bang_prefix_expression(right) ==
    IF right.kind = "Boolean"
    THEN POk(Boolean(~right.bool))
    ELSE Bind(cast_to_boolean(right), LAMBDA c :
         IF c.ok THEN eval_bang_prefix_expression(c.val) ELSE PErr(c.err))

\* a negation that takes a boolean for 1 or 0
eval_minus_prefix_operator_expression_coercing(right) ==
    IF right.kind = "Integer"
    THEN Checked(-right.int)
    ELSE IF right.kind = "Boolean"
    THEN Checked(IF right.bool THEN -1 ELSE 0)
    ELSE PErr([msg |-> "cannot use '-' operator on", obj |-> right])

eval_minus_prefix_operator_expression(right) ==
    IF right.kind = "Integer"
    THEN Checked(-right.int)
    ELSE PErr([msg |-> "cannot use '-' operator on", obj |-> right])

InfixErr(m, left, operator, right) ==
    PErr([msg |-> m, left |-> left, operator |-> operator, right |-> right])

\* an infix evaluation that compares operands of different kinds as unequal
eval_infix_expression_unequal(operator, left, right) ==
    CASE left.kind = "Integer" /\ right.kind = "Integer" ->
            (CASE operator = <<"+">> -> Checked(left.int + right.int)
               [] operator = <<"-">> -> Checked(left.int - right.int)
               [] operator = <<"*">> -> Checked(left.int * right.int)
               [] operator = <<"/">> -> Div(left.int, right.int)
               [] operator = <<"<">> -> POk(Boolean(left.int < right.int))
               [] operator = <<">">> -> POk(Boolean(left.int > right.int))
               [] operator = <<"=", "=">> -> POk(Boolean(left.int = right.int))
               [] operator = <<"!", "=">> -> POk(Boolean(left.int # right.int))
               [] OTHER -> InfixErr("unknown operator", left, operator, right))
      [] left.kind = "Boolean" /\ right.kind = "Boolean" ->
            (CASE operator = <<"=", "=">> -> POk(Boolean(left.bool = right.bool))
               [] operator = <<"!", "=">> -> POk(Boolean(left.bool # right.bool))
               [] OTHER -> InfixErr("unknown operator", left, operator, right))
      [] left.kind = "Null" /\ right.kind = "Null" ->
            (CASE operator = <<"=", "=">> -> POk(Boolean(TRUE))
               [] operator = <<"!", "=">> -> POk(Boolean(FALSE))
               [] OTHER -> InfixErr("unknown operator", left, operator, right))
      [] operator = <<"=", "=">> -> POk(Boolean(FALSE))
      [] operator = <<"!", "=">> -> POk(Boolean(TRUE))
      [] OTHER -> InfixErr("type mismatch", left, operator, right)

eval_infix_expression(operator, left, right) ==
    CASE left.kind = "Integer" /\ right.kind = "Integer" ->
            (CASE operator = <<"+">> -> Checked(left.int + right.int)
               [] operator = <<"-">> -> Checked(left.int - right.int)
               [] operator = <<"*">> -> Checked(left.int * right.int)
               [] operator = <<"/">> -> Div(left.int, right.int)
               [] operator = <<"<">> -> POk(Boolean(left.int < right.int))
               [] operator = <<">">> -> POk(Boolean(left.int > right.int))
               [] operator = <<"=", "=">> -> POk(Boolean(left.int = right.int))
               [] operator = <<"!", "=">> -> POk(Boolean(left.int # right.int))
               [] OTHER -> InfixErr("unknown operator", left, operator, right))
      [] left.kind = "Boolean" /\ right.kind = "Boolean" ->
            (CASE operator = <<"=", "=">> -> POk(Boolean(left.bool = right.bool))
               [] operator = <<"!", "=">> -> POk(Boolean(left.bool # right.bool))
               [] OTHER -> InfixErr("unknown operator", left, operator, right))
      [] left.kind = "Null" /\ right.kind = "Null" ->
            (CASE operator = <<"=", "=">> -> POk(Boolean(TRUE))
               [] operator = <<"!", "=">> -> POk(Boolean(FALSE))
               [] OTHER -> InfixErr("unknown operator", left, operator, right))
      [] OTHER -> InfixErr("type mismatch", left, operator, right)

RECURSIVE eval_statement(_, _, _)
RECURSIVE eval_expression(_, _, _)

RECURSIVE eval_block(_, _, _, _, _)
RECURSIVE eval_block_through(_, _, _, _, _)

\* a block loop that does not look for a ReturnValue
eval_block_through(stmts, i, res, e, l) ==
    IF i > Len(stmts)
    THEN Ok(res, e, l)
    ELSE Bind(eval_statement(stmts[i], e, l), LAMBDA r :
         IF r.tag # "ok" THEN r
         ELSE eval_block_through(stmts, i + 1, r.val, r.env, r.log))

\* a block loop that goes on after a statement that failed
RECURSIVE eval_block_skipping(_, _, _, _, _)
eval_block_skipping(stmts, i, res, e, l) ==
    IF i > Len(stmts)
    THEN Ok(res, e, l)
    ELSE Bind(eval_statement(stmts[i], e, l), LAMBDA r :
         IF r.tag # "ok" THEN eval_block_skipping(stmts, i + 1, res, r.env, r.log)
         ELSE IF r.val.kind = "ReturnValue" THEN r
         ELSE eval_block_skipping(stmts, i + 1, r.val, r.env, r.log))

\* a block loop that runs in a scope of its own: what the block binds is gone
\* when it ends
RECURSIVE eval_block_scoped(_, _, _, _, _)
eval_block_scoped(stmts, i, res, e, l) ==
    IF i > Len(stmts)
    THEN Ok(res, e, l)
    ELSE Bind(eval_statement(stmts[i], e, l), LAMBDA r :
         IF r.tag # "ok" THEN r
         ELSE IF r.val.kind = "ReturnValue" THEN Ok(r.val, e, r.log)
         ELSE Bind(eval_block_scoped(stmts, i + 1, r.val, r.env, r.log), LAMBDA q :
              IF q.tag # "ok" THEN q ELSE Ok(q.val, e, q.log)))

\* the for loop of eval_statement's BlockStatement arm, from the i-th statement on
eval_block(stmts, i, res, e, l) ==
    IF i > Len(stmts)
    THEN Ok(res, e, l)
    ELSE Bind(eval_statement(stmts[i], e, l), LAMBDA r :
         IF r.tag # "ok" THEN r
         ELSE IF r.val.kind = "ReturnValue" THEN r
         ELSE eval_block(stmts, i + 1, r.val, r.env, r.log))

eval_statement(statement, e, l) ==
    CASE statement.type = "ExpressionStatement" ->
            eval_expression(statement.expr, e, Append(l, statement))
      [] statement.type = "BlockStatement" ->
            eval_block(statement.statements, 1, Null, e, Append(l, statement))
      [] statement.type = "ReturnStatement" ->
            Bind(eval_expression(statement.expr, e, Append(l, statement)), LAMBDA val :
            IF val.tag # "ok" THEN val
            ELSE Ok(ReturnValue(val.val), val.env, val.log))
      [] statement.type = "LetStatement" ->
            Bind(eval_expression(statement.value, e, Append(l, statement)), LAMBDA val :
            IF val.tag # "ok" THEN val
            ELSE Ok(Null, Environment_set(val.env, statement.name, val.val), val.log))
      [] OTHER -> Ok(Null, e, Append(l, statement))

\* the prefix operator applied to the operand's value
eval_prefix_operator(operator, right) ==
    CASE operator = <<"!">> -> eval_bang_prefix_expression(right)
      [] operator = <<"-">> -> eval_minus_prefix_operator_expression(right)
      [] OTHER -> POk(Null)

eval_expression(expression, e, l) ==
    CASE expression.type = "IntegerLiteral" ->
            Ok(Integer(expression.value), e, Append(l, expression))
      [] expression.type = "Boolean" ->
            Ok(Boolean(expression.value), e, Append(l, expression))
      [] expression.type = "Identifier" ->
            IF Environment_get(e, expression.name) # None
            THEN Ok(Environment_get(e, expression.name), e, Append(l, expression))
            ELSE Fail(PErr([msg |-> "identifier not found", name |-> expression.name]),
                      e, Append(l, expression))
      [] expression.type = "PrefixExpression" ->
            Bind(eval_expression(expression.right, e, Append(l, expression)),
                 LAMBDA right :
            IF right.tag # "ok" THEN right
            ELSE Fail(eval_prefix_operator(expression.operator, right.val),
                      right.env, right.log))
      [] expression.type = "InfixExpression" ->
            Bind(eval_expression(expression.left, e, Append(l, expression)),
                 LAMBDA left :
            IF left.tag # "ok" THEN left ELSE
            Bind(eval_expression(expression.right, left.env, left.log), LAMBDA right :
            IF right.tag # "ok" THEN right
            ELSE Fail(eval_infix_expression(expression.operator, left.val, right.val),
                      right.env, right.log)))
      [] expression.type = "IfExpression" ->
            Bind(eval_expression(expression.condition, e, Append(l, expression)),
                 LAMBDA c :
            IF c.tag # "ok" THEN c ELSE
            Bind(cast_to_boolean(c.val), LAMBDA condition :
            IF ~condition.ok
            THEN Fail(PErr(condition.err), c.env, c.log)
            ELSE IF condition.val = Boolean(TRUE)
            THEN eval_statement(expression.consequence, c.env, c.log)
            ELSE IF expression.alternative # None
            THEN eval_statement(expression.alternative, c.env, c.log)
            ELSE Ok(Null, c.env, c.log)))
      [] OTHER -> Ok(Null, e, Append(l, expression))

\* eval_program as a function: the loop of the actions below, run to its end
RECURSIVE eval_program_from(_, _, _, _, _)
eval_program_from(stmts, i, res, e, l) ==
    IF i > Len(stmts)
    THEN Ok(res, e, l)
    ELSE Bind(eval_statement(stmts[i], e, l), LAMBDA r :
         IF r.tag # "ok" THEN r
         ELSE IF r.val.kind = "ReturnValue" THEN Ok(r.val.obj, r.env, r.log)
         ELSE eval_program_from(stmts, i + 1, r.val, r.env, r.log))

eval_program(p) == eval_program_from(p.statements, 1, Null, Environment_new, <<>>)

----------------------------------------------------------------------------
(* ast.rs: Display.  The text is kept as the tokens Lexer::next_token cuts it
   into: the spaces and newlines of the formats only separate them *)

RECURSIVE Decimal(_)
Decimal(v) ==
    IF v < 10 THEN <<Digits[v + 1]>>
    ELSE Decimal(v \div 10) \o <<Digits[(v % 10) + 1]>>

\* the token of a word or sign of the formats
Lexeme(t, lit) == Token(t, lit)

\* the token of an operator string
OperatorLexeme(operator) ==
    Lexeme(CASE operator = <<"+">> -> "PLUS"
             [] operator = <<"-">> -> "MINUS"
             [] operator = <<"!">> -> "BANG"
             [] operator = <<"*">> -> "ASTERISK"
             [] operator = <<"/">> -> "SLASH"
             [] operator = <<"<">> -> "LT"
             [] operator = <<">">> -> "GT"
             [] operator = <<"=", "=">> -> "EQ"
             [] operator = <<"!", "=">> -> "NOT_EQ"
             [] OTHER -> "ILLEGAL",
           operator)

RECURSIVE fmt_Expression(_)
RECURSIVE fmt_Statement(_)
RECURSIVE fmt_join(_, _, _)

\* iter().map(format!).collect().join(sep) over expressions, from the i-th on
fmt_join(xs, i, sep) ==
    IF i > Len(xs) THEN <<>>
    ELSE fmt_Expression(xs[i])
         \o (IF i < Len(xs) THEN sep ELSE <<>>)
         \o fmt_join(xs, i + 1, sep)

\* the same over statements, joined by a newline
RECURSIVE fmt_lines(_, _)
fmt_lines(ss, i) ==
    IF i > Len(ss) THEN <<>> ELSE fmt_Statement(ss[i]) \o fmt_lines(ss, i + 1)

fmt_Expression(self) ==
    CASE self.type = "Identifier" -> <<Lexeme("IDENT", self.name)>>
      [] self.type = "IntegerLiteral" -> <<Lexeme("INT", Decimal(self.value))>>
      [] self.type = "Boolean" ->
            <<IF self.value THEN Lexeme("TRUE", <<"t", "r", "u", "e">>)
              ELSE Lexeme("FALSE", <<"f", "a", "l", "s", "e">>)>>
      [] self.type = "PrefixExpression" ->
            <<Lexeme("LPAREN", <<"(">>), OperatorLexeme(self.operator)>>
            \o fmt_Expression(self.right) \o <<Lexeme("RPAREN", <<")">>)>>
      [] self.type = "InfixExpression" ->
            <<Lexeme("LPAREN", <<"(">>)>> \o fmt_Expression(self.left)
            \o <<OperatorLexeme(self.operator)>>
            \o fmt_Expression(self.right) \o <<Lexeme("RPAREN", <<")">>)>>
      [] self.type = "IfExpression" ->
            <<Lexeme("IF", <<"i", "f">>)>> \o fmt_Expression(self.condition)
            \o fmt_Statement(self.consequence)
            \o (IF self.alternative # None
                THEN <<Lexeme("ELSE", <<"e", "l", "s", "e">>)>>
                     \o fmt_Statement(self.alternative)
                ELSE <<>>)
      [] self.type = "FunctionLiteral" ->
            <<Lexeme("FUNCTION", <<"f", "n">>), Lexeme("LPAREN", <<"(">>)>>
            \o fmt_join(self.parameters, 1, <<Lexeme("COMMA", <<",">>)>>)
            \o <<Lexeme("RPAREN", <<")">>)>> \o fmt_Statement(self.body)
      [] self.type = "CallExpression" ->
            fmt_Expression(self.function) \o <<Lexeme("LPAREN", <<"(">>)>>
            \o fmt_join(self.arguments, 1, <<Lexeme("COMMA", <<",">>)>>)
            \o <<Lexeme("RPAREN", <<")">>)>>
      [] OTHER -> <<>>

fmt_Statement(self) ==
    CASE self.type = "LetStatement" ->
            <<Lexeme("LET", <<"l", "e", "t">>), Lexeme("IDENT", self.name),
              Lexeme("ASSIGN", <<"=">>)>>
            \o fmt_Expression(self.value) \o <<Lexeme("SEMICOLON", <<";">>)>>
      [] self.type = "ReturnStatement" ->
            <<Lexeme("RETURN", <<"r", "e", "t", "u", "r", "n">>)>>
            \o fmt_Expression(self.expr) \o <<Lexeme("SEMICOLON", <<";">>)>>
      [] self.type = "ExpressionStatement" -> fmt_Expression(self.expr)
      [] self.type = "BlockStatement" ->
            <<Lexeme("LBRACE", <<"{">>)>> \o fmt_lines(self.statements, 1)
            \o <<Lexeme("RBRACE", <<"}">>)>>
      [] OTHER -> <<>>

fmt_Program(self) == fmt_lines(self.statements, 1)

----------------------------------------------------------------------------
(* Sources: token streams as Lexer::next_token produces them *)

T_INT(n) == Token("INT", <<Digits[n + 1]>>)
T_IDENT(c) == Token("IDENT", <<c>>)
T_PLUS == Token("PLUS", <<"+">>)
T_MINUS == Token("MINUS", <<"-">>)
T_BANG == Token("BANG", <<"!">>)
T_ASTERISK == Token("ASTERISK", <<"*">>)
T_SLASH == Token("SLASH", <<"/">>)
T_LT == Token("LT", <<"<">>)
T_GT == Token("GT", <<">">>)
T_EQ == Token("EQ", <<"=", "=">>)
T_NOT_EQ == Token("NOT_EQ", <<"!", "=">>)
T_ASSIGN == Token("ASSIGN", <<"=">>)
T_COMMA == Token("COMMA", <<",">>)
T_SEMICOLON == Token("SEMICOLON", <<";">>)
T_LPAREN == Token("LPAREN", <<"(">>)
T_RPAREN == Token("RPAREN", <<")">>)
T_LBRACE == Token("LBRACE", <<"{">>)
T_RBRACE == Token("RBRACE", <<"}">>)
T_TRUE == Token("TRUE", <<"t", "r", "u", "e">>)
T_FALSE == Token("FALSE", <<"f", "a", "l", "s", "e">>)
T_IF == Token("IF", <<"i", "f">>)
T_ELSE == Token("ELSE", <<"e", "l", "s", "e">>)
T_RETURN == Token("RETURN", <<"r", "e", "t", "u", "r", "n">>)
T_LET == Token("LET", <<"l", "e", "t">>)
T_FUNCTION == Token("FUNCTION", <<"f", "n">>)
T_ILLEGAL == Token("ILLEGAL", <<"@">>)


\* operator expressions: operand (op operand)*, an operand an optionally
\* prefixed identifier or integer
PrefixToks == {T_BANG, T_MINUS}
BinOpToks == {T_EQ, T_NOT_EQ, T_LT, T_GT, T_PLUS, T_MINUS, T_ASTERISK, T_SLASH}
OperandSources == {<<T_IDENT("a")>>, <<T_BANG, T_MINUS, T_INT(1)>>}

RECURSIVE OpChains(_)
OpChains(k) ==
    IF k = 0 THEN OperandSources
    ELSE {c \o <<o>> \o x : c \in OpChains(k - 1), o \in BinOpToks, x \in OperandSources}

ExprSources == UNION {OpChains(k) : k \in 0..MaxOps}

\* integer arithmetic: three signed literals, two of + - * /, grouped by
\* parentheses in every way, with or without the closing semicolon
ArithOpToks == {T_PLUS, T_MINUS, T_ASTERISK, T_SLASH}
ArithOperands ==
    {<<T_INT(n)>> : n \in {0, 2, 3}} \cup {<<T_MINUS, T_INT(7)>>}
Paren(src) == <<T_LPAREN>> \o src \o <<T_RPAREN>>

ArithShapes(x, o1, y, o2, z) ==
    { x \o <<o1>> \o y \o <<o2>> \o z,
      Paren(x \o <<o1>> \o y) \o <<o2>> \o z,
      x \o <<o1>> \o Paren(y \o <<o2>> \o z),
      <<T_MINUS>> \o Paren(x \o <<o1>> \o y) \o <<o2>> \o z \o <<T_SEMICOLON>> }

ArithSources ==
    UNION {ArithShapes(x, o1, y, o2, z) :
              x \in ArithOperands, o1 \in ArithOpToks, y \in ArithOperands,
              o2 \in ArithOpToks, z \in ArithOperands}


----------------------------------------------------------------------------
(* The pipeline: Parser::new, parse_program, eval_program *)

\* source text of the statement and expression forms
S_expr(e) == e \o <<T_SEMICOLON>>
S_let(n, e) == <<T_LET, T_IDENT(n), T_ASSIGN>> \o e \o <<T_SEMICOLON>>
S_return(e) == <<T_RETURN>> \o e \o <<T_SEMICOLON>>
S_block(ss) == <<T_LBRACE>> \o ss \o <<T_RBRACE>>
S_if(c, cons) == <<T_IF, T_LPAREN>> \o c \o <<T_RPAREN>> \o S_block(cons)
S_ifelse(c, cons, alt) == S_if(c, cons) \o <<T_ELSE>> \o S_block(alt)
S_infix(l, o, r) == l \o <<o>> \o r

\* returns in nested if-blocks, as a statement of their own and as an operand,
\* followed by statements that read or rebind a name, or fail
ReturnInner == {S_return(<<T_INT(2)>>), S_expr(<<T_INT(1)>>), S_let("a", <<T_INT(3)>>)}
ReturnAfter == {S_return(<<T_INT(1)>>), S_expr(<<T_INT(4)>>), S_expr(<<T_IDENT("b")>>)}
ReturnConds == {<<T_TRUE>>, <<T_INT(0)>>}
ReturnBodies ==
    {S_expr(S_if(c, s)) \o t : c \in ReturnConds, s \in ReturnInner, t \in ReturnAfter}
ReturnIfs ==
    {S_if(c, b) : c \in ReturnConds, b \in ReturnBodies}
    \cup {S_ifelse(c, b, S_return(<<T_INT(5)>>)) : c \in ReturnConds, b \in ReturnBodies}
ReturnUses(x) ==
    {S_expr(x), S_return(x), S_let("a", x), S_expr(<<T_BANG>> \o Paren(x)), S_block(S_expr(x))}
ReturnPosts ==
    {<<>>, S_expr(<<T_IDENT("a")>>), S_let("a", <<T_INT(6)>>),
     S_expr(S_infix(<<T_TRUE>>, T_PLUS, <<T_INT(1)>>))}
ReturnSources ==
    UNION {{u \o q : u \in ReturnUses(x), q \in ReturnPosts} : x \in ReturnIfs}

\* sequences of lets and lookups of two names, one let with a value that binds
\* a name in an if-block
LetStatements ==
    {S_let("a", <<T_INT(5)>>), S_let("b", <<T_IDENT("a")>>), S_let("a", <<T_INT(7)>>),
     S_expr(<<T_IDENT("b")>>),
     S_let("b", S_if(<<T_IDENT("a")>>, S_let("a", <<T_INT(1)>>) \o S_expr(<<T_INT(2)>>)))}

RECURSIVE LetChains(_)
LetChains(k) ==
    IF k = 0 THEN {<<>>}
    ELSE {c \o x : c \in LetChains(k - 1), x \in LetStatements}

LetSources == UNION {LetChains(k) : k \in 1..MaxLets}

\* a statement that may fail, between a statement before and a statement after it
ErrorBefore == {<<>>, S_let("a", <<T_INT(1)>>), S_expr(<<T_TRUE>>)}
ErrorAfter == {<<>>, S_let("b", <<T_INT(2)>>), S_expr(<<T_IDENT("c")>>)}
ErrorExprs ==
    {<<T_IDENT("a")>>,
     S_infix(<<T_TRUE>>, T_PLUS, <<T_INT(1)>>),
     S_infix(<<T_TRUE>>, T_PLUS, <<T_FALSE>>),
     <<T_MINUS, T_TRUE>>,
     S_infix(<<T_IDENT("a")>>, T_PLUS, <<T_IDENT("c")>>),
     S_infix(<<T_IDENT("c")>>, T_EQ, <<T_MINUS, T_TRUE>>),
     <<T_BANG>> \o Paren(S_infix(<<T_INT(1)>>, T_LT, <<T_TRUE>>))}
ErrorStatements ==
    UNION {{S_expr(e), S_let("a", e), S_return(e),
            S_block(S_let("b", <<T_INT(3)>>) \o S_expr(e) \o S_let("b", <<T_INT(4)>>)),
            S_expr(S_if(e, S_let("b", <<T_INT(3)>>))),
            S_expr(S_if(<<T_INT(1)>>, S_let("b", <<T_INT(3)>>) \o S_return(e)))}
           : e \in ErrorExprs}
ErrorSources ==
    {x \o y \o z : x \in ErrorBefore, y \in ErrorStatements, z \in ErrorAfter}

\* if-expressions: a condition of every kind of value, branches that yield a
\* value, bind a name, return, fail or are empty
IfConds ==
    {<<T_TRUE>>, <<T_FALSE>>, <<T_INT(0)>>, <<T_INT(1)>>, <<T_IDENT("a")>>,
     S_if(<<T_FALSE>>, <<>>), S_if(<<T_TRUE>>, S_return(<<T_INT(0)>>)),
     S_infix(<<T_INT(1)>>, T_PLUS, <<T_TRUE>>)}
IfBranches ==
    {<<>>, S_expr(<<T_INT(1)>>), S_expr(<<T_IDENT("c")>>), S_let("a", <<T_INT(2)>>),
     S_return(<<T_INT(3)>>)}
IfForms ==
    {S_if(c, x) : c \in IfConds, x \in IfBranches}
    \cup {S_ifelse(c, x, y) : c \in IfConds, x \in IfBranches, y \in IfBranches}
IfBefore == {<<>>, S_let("a", <<T_INT(0)>>)}
IfAfter == {<<>>, S_expr(<<T_IDENT("a")>>)}
IfSources == {x \o S_expr(y) \o z : x \in IfBefore, y \in IfForms, z \in IfAfter}

\* a function of two parameters bound to a name and called with two integers
S_fn(ps, body) == <<T_FUNCTION, T_LPAREN>> \o ps \o <<T_RPAREN>> \o S_block(body)
S_call(f, as) == f \o <<T_LPAREN>> \o as \o <<T_RPAREN>>
CallBefore == {<<>>, S_let("z", <<T_INT(1)>>)}
CallBodies ==
    {S_expr(S_infix(<<T_IDENT("x")>>, T_PLUS, <<T_IDENT("y")>>)),
     S_return(<<T_IDENT("x")>>) \o S_expr(<<T_IDENT("y")>>),
     S_expr(S_infix(<<T_IDENT("x")>>, T_PLUS, <<T_IDENT("z")>>))}
CallArgs == 0..3
CallSources ==
    {pre \o S_let("f", S_fn(<<T_IDENT("x"), T_COMMA, T_IDENT("y")>>, body))
         \o S_expr(S_call(<<T_IDENT("f")>>, <<T_INT(i), T_COMMA, T_INT(j)>>))
       : pre \in CallBefore, body \in CallBodies, i \in CallArgs, j \in CallArgs}

\* let statements with any token after `let`, after the name and after the
\* value, cut short or whole, at the top level and in blocks
LetOpeners ==
    {<<>>, S_expr(<<T_INT(1)>>), <<T_LBRACE>>,
     <<T_IF, T_LPAREN, T_TRUE, T_RPAREN, T_LBRACE>>,
     <<T_FUNCTION, T_LPAREN, T_RPAREN, T_LBRACE>>}
LetTokens ==
    {T_IDENT("x"), T_ASSIGN, T_SEMICOLON, T_INT(5), T_RBRACE, T_LET, T_ILLEGAL}
LetValues ==
    {<<T_INT(5)>>, S_infix(<<T_IDENT("a")>>, T_PLUS, <<T_INT(1)>>), <<T_MINUS, T_IDENT("b")>>}
LetForms ==
    {<<T_LET, t1, t2>> \o v \o <<t3>> :
        t1 \in LetTokens, t2 \in LetTokens, v \in LetValues, t3 \in LetTokens}
LetErrorSources ==
    UNION {{o \o SubSeq(f, 1, n) : n \in 1..Len(f)} : o \in LetOpeners, f \in LetForms}
    \cup {o \o f \o <<T_RBRACE>> : o \in LetOpeners, f \in LetForms}

\* sources in which an expression has to start at a given token: what stands
\* before a statement, what stands before an operand, one token, and a rest
\* that may hold further syntax errors
StatementContexts ==
    {<<>>, S_expr(<<T_INT(1)>>), S_let("a", <<T_INT(1)>>)}
OperandContexts ==
    {<<T_LET, T_IDENT("x"), T_ASSIGN>>, <<T_RETURN>>, <<T_BANG>>, <<T_MINUS>>,
     <<T_INT(1), T_PLUS>>, <<T_LPAREN>>, <<T_IF, T_LPAREN>>,
     <<T_IDENT("f"), T_LPAREN, T_INT(1), T_COMMA>>,
     S_expr(<<T_INT(1)>>) \o <<T_INT(2), T_ASTERISK>>}
StartTokens ==
    {T_ASSIGN, T_PLUS, T_ASTERISK, T_SLASH, T_LT, T_GT, T_EQ, T_NOT_EQ, T_COMMA,
     T_SEMICOLON, T_RPAREN, T_LBRACE, T_RBRACE, T_ELSE, T_RETURN, T_LET, T_ILLEGAL,
     T_INT(1), T_IDENT("a"), T_TRUE, T_MINUS}
StartRests ==
    {<<>>, <<T_SEMICOLON>>, <<T_INT(1), T_SEMICOLON>>, <<T_RPAREN, T_LET, T_LET>>}
StartSources ==
    {c \o <<t>> \o r :
        c \in StatementContexts \cup OperandContexts, t \in StartTokens, r \in StartRests}
    \cup StatementContexts \cup OperandContexts

\* sources with an illegal character: programs in which one token is replaced
\* by an ILLEGAL token, or has one put before it or after the last token
IllegalBases ==
    {S_let("f", S_fn(<<T_IDENT("x"), T_COMMA, T_IDENT("y")>>,
                     S_expr(S_infix(<<T_IDENT("x")>>, T_PLUS, <<T_IDENT("y")>>))))
        \o S_expr(S_call(<<T_IDENT("f")>>, <<T_INT(1), T_COMMA, T_INT(2)>>)),
     S_expr(S_fn(<<T_IDENT("x")>>, S_return(<<T_IDENT("x")>>))),
     S_expr(S_ifelse(<<T_BANG, T_TRUE>>, S_expr(<<T_INT(1)>>), S_expr(<<T_INT(2)>>))),
     S_expr(S_infix(<<T_INT(1)>>, T_PLUS, <<T_LPAREN, T_INT(2), T_RPAREN>>))}
ReplaceAt(b, k) == SubSeq(b, 1, k - 1) \o <<T_ILLEGAL>> \o SubSeq(b, k + 1, Len(b))
InsertAt(b, k) == SubSeq(b, 1, k - 1) \o <<T_ILLEGAL>> \o SubSeq(b, k, Len(b))
IllegalSources ==
    IllegalBases
    \cup UNION {{ReplaceAt(b, k) : k \in 1..Len(b)} : b \in IllegalBases}
    \cup UNION {{InsertAt(b, k) : k \in 1..(Len(b) + 1)} : b \in IllegalBases}

\* sources that end inside a block: programs with blocks, cut after any token
BlockBases ==
    {S_block(S_expr(<<T_INT(1)>>) \o S_expr(<<T_INT(2)>>)),
     S_expr(S_if(<<T_TRUE>>, S_expr(<<T_INT(1)>>))),
     S_expr(S_ifelse(<<T_FALSE>>, S_expr(<<T_INT(1)>>), S_return(<<T_INT(2)>>))),
     S_expr(S_fn(<<T_IDENT("x")>>, S_expr(<<T_IDENT("x")>>))),
     S_let("f", S_fn(<<>>, S_return(<<T_INT(1)>>))),
     S_block(S_let("a", <<T_INT(1)>>) \o S_block(S_expr(<<T_IDENT("a")>>))),
     S_expr(<<T_INT(1)>>) \o S_block(<<>>)}
BlockSources ==
    UNION {{SubSeq(b, 1, n) : n \in 0..Len(b)} : b \in BlockBases}

\* function literals whose parameter list is any run of up to MaxParams tokens
ParameterTokens ==
    {T_IDENT("x"), T_IDENT("y"), T_COMMA, T_INT(1), T_PLUS, T_LET, T_ILLEGAL, T_RPAREN}
RECURSIVE ParameterLists(_)
ParameterLists(n) ==
    IF n = 0 THEN {<<>>}
    ELSE ParameterLists(n - 1)
         \cup {Append(ps, t) : ps \in {l \in ParameterLists(n - 1) : Len(l) = n - 1},
                               t \in ParameterTokens}
ParameterBody == S_block(S_expr(<<T_IDENT("x")>>)) \o <<T_SEMICOLON>>
ParameterSources ==
    {<<T_FUNCTION, T_LPAREN>> \o ps \o <<T_RPAREN>> \o ParameterBody :
        ps \in ParameterLists(MaxParams)}

\* every token stream of up to MaxTokens tokens that open, separate and close
\* the constructs with loops
StreamTokens ==
    {T_INT(1), T_PLUS, T_LPAREN, T_RPAREN, T_LBRACE, T_COMMA, T_FUNCTION, T_SEMICOLON}
StreamSources == UNION {[1..n -> StreamTokens] : n \in 0..MaxTokens}

\* sources to print and parse again
PrintSources == ExprSources \cup LetSources \cup IfSources \cup CallSources

ProgramSources == ReturnSources \cup LetSources \cup ErrorSources \cup IfSources

\* the state after Parser::new on a source of the set S
InitOn(S) ==
    /\ toks \in S
    /\ pos = 1
    /\ statements = <<>>
    /\ pstatus = "parsing"
    /\ perr = None
    /\ program = None
    /\ idx = 0
    /\ env = None
    /\ result = None
    /\ estatus = "idle"
    /\ out = None
    /\ log = <<>>
    /\ overflow_checks \in BOOLEAN
    /\ operands = None
    /\ applied = None
    /\ lexer = None
    /\ calls = <<>>
    /\ iter = None

\* one iteration of parse_program's while loop
ParseStatement ==
    /\ pstatus = "parsing"
    /\ TokAt(toks, pos).type # "EOF"
    /\ \E stmt \in {parse_statement(toks, pos)} :
          IF stmt.ok
          THEN /\ statements' = IF stmt.val # EmptyStatement
                                THEN Append(statements, stmt.val) ELSE statements
               /\ pos' = stmt.pos + 1
               /\ UNCHANGED <<pstatus, perr>>
          ELSE /\ pstatus' = "err"
               /\ perr' = stmt.err
               /\ pos' = stmt.pos
               /\ UNCHANGED statements
    /\ UNCHANGED <<toks, program, overflow_checks>>
    /\ UNCHANGED evalVars
    /\ UNCHANGED helperVars
    /\ UNCHANGED lexerVars

\* parse_program's loop ends at EOF: Ok(program)
ParseFinish ==
    /\ pstatus = "parsing"
    /\ TokAt(toks, pos).type = "EOF"
    /\ pstatus' = "ok"
    /\ program' = Program(statements)
    /\ UNCHANGED <<toks, pos, statements, perr, overflow_checks>>
    /\ UNCHANGED evalVars
    /\ UNCHANGED helperVars
    /\ UNCHANGED lexerVars

\* eval_program is entered: a new Environment, result = Null
EvalBegin ==
    /\ pstatus = "ok"
    /\ estatus = "idle"
    /\ estatus' = "running"
    /\ env' = Environment_new
    /\ result' = Null
    /\ idx' = 1
    /\ UNCHANGED <<out, log, program, overflow_checks>>
    /\ UNCHANGED parserVars
    /\ UNCHANGED helperVars
    /\ UNCHANGED lexerVars

\* one iteration of eval_program's for loop
EvalStatement ==
    /\ estatus = "running"
    /\ idx <= Len(program.statements)
    /\ \E r \in {eval_statement(program.statements[idx], env, log)} :
          /\ env' = r.env
          /\ log' = r.log
          /\ IF r.tag # "ok"
             THEN /\ estatus' = r.tag
                  /\ out' = r.val
                  /\ UNCHANGED <<result, idx>>
             ELSE IF r.val.kind = "ReturnValue"
             THEN /\ estatus' = "ok"
                  /\ out' = r.val.obj
                  /\ result' = r.val
                  /\ UNCHANGED idx
             ELSE /\ result' = r.val
                  /\ idx' = idx + 1
                  /\ UNCHANGED <<estatus, out>>
    /\ UNCHANGED <<program, overflow_checks>>
    /\ UNCHANGED parserVars
    /\ UNCHANGED helperVars
    /\ UNCHANGED lexerVars

\* eval_program's loop is through: Ok(result)
EvalFinish ==
    /\ estatus = "running"
    /\ idx > Len(program.statements)
    /\ estatus' = "ok"
    /\ out' = result
    /\ UNCHANGED <<idx, env, result, log, program, overflow_checks>>
    /\ UNCHANGED parserVars
    /\ UNCHANGED helperVars
    /\ UNCHANGED lexerVars

Next == ParseStatement \/ ParseFinish \/ EvalBegin \/ EvalStatement \/ EvalFinish

Init == InitOn(ProgramSources)
Spec == Init /\ [][Next]_vars

InitExpr == InitOn(ExprSources)
SpecExpr == InitExpr /\ [][Next]_vars

InitArith == InitOn(ArithSources)
SpecArith == InitArith /\ [][Next]_vars

\* format!("{}", program) of the parsed program
Format ==
    /\ pstatus = "ok"
    /\ applied = None
    /\ applied' = [fn |-> "fmt", text |-> fmt_Program(program)]
    /\ UNCHANGED <<operands, program, overflow_checks>>
    /\ UNCHANGED lexerVars
    /\ UNCHANGED parserVars
    /\ UNCHANGED evalVars

\* parse_program on the text of the program
Reparse ==
    /\ applied # None
    /\ applied.fn = "fmt"
    /\ applied' = [fn |-> "parse_program", text |-> applied.text,
                   res |-> parse_program(applied.text)]
    /\ UNCHANGED <<operands, program, overflow_checks>>
    /\ UNCHANGED lexerVars
    /\ UNCHANGED parserVars
    /\ UNCHANGED evalVars

NextPrint == ParseStatement \/ ParseFinish \/ Format \/ Reparse

InitPrint == InitOn(PrintSources)
SpecPrint == InitPrint /\ [][NextPrint]_vars

InitLet == InitOn(LetErrorSources)
SpecLet == InitLet /\ [][Next]_vars

InitCall == InitOn(CallSources)
SpecCall == InitCall /\ [][Next]_vars

InitStart == InitOn(StartSources)
SpecStart == InitStart /\ [][Next]_vars

InitIllegal == InitOn(IllegalSources)
SpecIllegal == InitIllegal /\ [][Next]_vars

InitBlock == InitOn(BlockSources)
SpecBlock == InitBlock /\ [][Next]_vars

\* a let whose value is an if-expression that returns from a branch, and
\* reads of the name after it
WrapConds == {<<T_TRUE>>, <<T_FALSE>>, <<T_INT(1)>>}
WrapBranches == {S_return(<<T_INT(1)>>), S_expr(<<T_INT(3)>>), S_return(<<T_TRUE>>)}
WrapValues ==
    {S_if(c, x) : c \in WrapConds, x \in WrapBranches}
    \cup {S_ifelse(c, x, y) : c \in WrapConds, x \in WrapBranches, y \in WrapBranches}
WrapAfter ==
    {<<>>, S_expr(<<T_IDENT("a")>>), S_expr(<<T_INT(2)>>),
     S_expr(<<T_IDENT("a")>>) \o S_expr(<<T_INT(2)>>),
     S_expr(<<T_INT(2)>>) \o S_expr(<<T_IDENT("a")>>),
     S_let("b", <<T_IDENT("a")>>) \o S_expr(<<T_INT(2)>>)}
WrapSources == {x \o S_let("a", v) \o z : x \in IfBefore, v \in WrapValues, z \in WrapAfter}

InitWrap == InitOn(WrapSources)
SpecWrap == InitWrap /\ [][Next]_vars

\* lets inside the branches of if-expressions and inside top-level blocks,
\* after a binding made before the block and before reads of the names
ScopeLets ==
    {S_let("a", <<T_INT(2)>>), S_let("b", <<T_INT(3)>>),
     S_expr(<<T_INT(1)>>) \o S_let("a", <<T_INT(2)>>),
     S_let("a", <<T_INT(2)>>) \o S_let("a", <<T_INT(4)>>),
     S_block(S_let("a", <<T_INT(2)>>)) \o S_let("b", <<T_INT(3)>>)}
ScopeBlocks ==
    {S_expr(S_if(c, x)) : c \in {<<T_TRUE>>, <<T_FALSE>>}, x \in ScopeLets}
    \cup {S_expr(S_ifelse(c, x, S_let("a", <<T_INT(5)>>))) :
             c \in {<<T_TRUE>>, <<T_FALSE>>}, x \in ScopeLets}
    \cup {S_block(x) : x \in ScopeLets}
ScopeBefore == {<<>>, S_let("a", <<T_INT(0)>>), S_let("b", <<T_INT(0)>>)}
ScopeAfter ==
    {<<>>, S_expr(<<T_IDENT("a")>>), S_expr(<<T_IDENT("b")>>),
     S_block(S_let("a", <<T_INT(6)>>)) \o S_expr(<<T_IDENT("a")>>)}
ScopeSources == {x \o y \o z : x \in ScopeBefore, y \in ScopeBlocks, z \in ScopeAfter}

InitScope == InitOn(ScopeSources)
SpecScope == InitScope /\ [][Next]_vars

InitStream == InitOn(StreamSources)
SpecStream == InitStream /\ [][Next]_vars

InitParameters == InitOn(ParameterSources)
SpecParameters == InitParameters /\ [][Next]_vars

----------------------------------------------------------------------------
(* The operator helpers and Object::cast_to_boolean, applied to Objects *)

FunctionObjects == {FunctionObject(<<>>, BlockStatement(<<>>), Environment_new)}
IntegerObjects == {Integer(i) : i \in MinInt..MaxInt}
PlainObjects == IntegerObjects \cup {Boolean(TRUE), Boolean(FALSE), Null}
WrappedObjects ==
    {ReturnValue(o) : o \in {Integer(0), Integer(1), Boolean(TRUE), Boolean(FALSE), Null}
                            \cup FunctionObjects}
    \cup {ReturnValue(ReturnValue(o)) : o \in {Integer(0), Boolean(TRUE)} \cup FunctionObjects}
Objects == PlainObjects \cup FunctionObjects \cup WrappedObjects

\* the operator strings of the tokens the parser takes for an operator
Operators == {t.literal : t \in BinOpToks \cup PrefixToks}

InitObject ==
    /\ operands \in [operator : Operators, left : Objects, right : Objects]
    /\ applied = None
    /\ toks = <<>>
    /\ pos = 1
    /\ statements = <<>>
    /\ pstatus = "unused"
    /\ perr = None
    /\ program = None
    /\ idx = 0
    /\ env = None
    /\ result = None
    /\ estatus = "idle"
    /\ out = None
    /\ log = <<>>
    /\ overflow_checks \in BOOLEAN
    /\ lexer = None
    /\ calls = <<>>
    /\ iter = None

\* the call f with the result res
Applied(f, res) ==
    /\ applied = None
    /\ applied' = [fn |-> f, res |-> res]
    /\ UNCHANGED <<operands, program, overflow_checks>>
    /\ UNCHANGED lexerVars
    /\ UNCHANGED parserVars
    /\ UNCHANGED evalVars

Apply_cast_to_boolean ==
    Applied("cast_to_boolean", cast_to_boolean(operands.right))

Apply_eval_bang_prefix_expression ==
    Applied("eval_bang_prefix_expression", eval_bang_prefix_expression(operands.right))

Apply_eval_minus_prefix_operator_expression ==
    Applied("eval_minus_prefix_operator_expression",
            eval_minus_prefix_operator_expression(operands.right))

Apply_eval_infix_expression ==
    Applied("eval_infix_expression",
            eval_infix_expression(operands.operator, operands.left, operands.right))

NextObject ==
    \/ Apply_cast_to_boolean
    \/ Apply_eval_bang_prefix_expression
    \/ Apply_eval_minus_prefix_operator_expression
    \/ Apply_eval_infix_expression

SpecObject == InitObject /\ [][NextObject]_vars

----------------------------------------------------------------------------
(* Environment::get and Environment::set, applied to chains of environments *)

EnvNames == {T_IDENT(c).literal : c \in {"a", "b"}}
EnvValues == {Integer(1), Integer(2)}

\* every HashMap from some of the names to the values
Stores == UNION {[D -> EnvValues] : D \in SUBSET EnvNames}

\* the chains of k scopes, the innermost outermost in the record
RECURSIVE EnvChains(_)
EnvChains(k) ==
    IF k = 1 THEN {[store |-> st, outer |-> None] : st \in Stores}
    ELSE {[store |-> st, outer |-> o] : st \in Stores, o \in EnvChains(k - 1)}

InitEnv ==
    /\ operands \in [env : UNION {EnvChains(k) : k \in 1..MaxDepth},
                     name : EnvNames, value : EnvValues]
    /\ applied = None
    /\ toks = <<>>
    /\ pos = 1
    /\ statements = <<>>
    /\ pstatus = "unused"
    /\ perr = None
    /\ program = None
    /\ idx = 0
    /\ env = None
    /\ result = None
    /\ estatus = "idle"
    /\ out = None
    /\ log = <<>>
    /\ overflow_checks = FALSE
    /\ lexer = None
    /\ calls = <<>>
    /\ iter = None

Apply_Environment_get ==
    Applied("Environment_get", Environment_get(operands.env, operands.name))

Apply_Environment_set ==
    Applied("Environment_set",
            Environment_set(operands.env, operands.name, operands.value))

NextEnv == Apply_Environment_get \/ Apply_Environment_set

SpecEnv == InitEnv /\ [][NextEnv]_vars

----------------------------------------------------------------------------
(* Lexer::new and repeated Lexer::next_token calls, on short sources *)

\* a letter of each keyword-free kind, a digit, a blank, the two characters
\* that start two-character operators, a delimiter, a character of no token,
\* and a letter of two bytes
Characters == {"f", "n", "1", " ", "=", "!", ";", "@", "é"}
LexerInputs == UNION {[1..n -> Characters] : n \in 0..MaxSource}

\* all sources of up to MaxSource characters of the set C
SourcesOver(C) == UNION {[1..n -> C] : n \in 0..MaxSource}

\* the state after Lexer::new on a source of the set S
InitLexerOn(S) ==
    /\ lexer \in {Lexer_new(input) : input \in S}
    /\ calls = <<>>
    /\ iter = None
    /\ operands = None
    /\ applied = None
    /\ toks = <<>>
    /\ pos = 1
    /\ statements = <<>>
    /\ pstatus = "unused"
    /\ perr = None
    /\ program = None
    /\ idx = 0
    /\ env = None
    /\ result = None
    /\ estatus = "idle"
    /\ out = None
    /\ log = <<>>
    /\ overflow_checks = FALSE

InitLexer == InitLexerOn(LexerInputs)

\* one call of next_token; a panic ends the calls
NextToken ==
    /\ ~lexer.panicked
    /\ Len(calls) < Len(lexer.input) + 1 + MaxMore
    /\ \E r \in {next_token(lexer)} :
          /\ lexer' = r.lexer
          /\ calls' = Append(calls, [before |-> lexer, token |-> r.token,
                                     after |-> r.lexer])
    /\ UNCHANGED iter
    /\ UNCHANGED <<program, overflow_checks>>
    /\ UNCHANGED parserVars
    /\ UNCHANGED evalVars
    /\ UNCHANGED helperVars

NextLexer == NextToken

SpecLexer == InitLexer /\ [][NextLexer]_vars

\* characters of no token among others: ASCII punctuation outside the
\* operators and delimiters, and a control character
IllegalCharacters == {"@", "#", "_", "[", "U+0001", " ", "f", "1", "="}
InitIllegalChar == InitLexerOn(SourcesOver(IllegalCharacters))
SpecIllegalChar == InitIllegalChar /\ [][NextLexer]_vars

\* ASCII digits among numeric characters of other scripts, a letter, a blank
\* and a delimiter
NumberCharacters == {"1", "2", "U+0663", "U+00B2", "f", " ", ";"}
InitNumber == InitLexerOn(SourcesOver(NumberCharacters))
SpecNumber == InitNumber /\ [][NextLexer]_vars

\* words: all short ones over the letters of fn, let and if, the longer
\* keywords, and words that contain a keyword
KeywordCharacters == {"f", "n", "l", "e", "t", "i", " "}
KeywordWords ==
    {<<"t", "r", "u", "e">>, <<"f", "a", "l", "s", "e">>, <<"e", "l", "s", "e">>,
     <<"r", "e", "t", "u", "r", "n">>, <<"l", "e", "t", "s">>, <<"i", "f", "f", "y">>,
     <<"t", "r", "u", "e", " ", "f", "n">>}
InitKeyword == InitLexerOn(SourcesOver(KeywordCharacters) \cup KeywordWords)
SpecKeyword == InitKeyword /\ [][NextLexer]_vars

\* two fresh Lexers over the same text: one pulled by next_token calls, one
\* consumed by a for loop, which stops at the first None
IteratorCharacters == {"f", "1", " ", "=", "@"}

InitIterator ==
    /\ \E input \in SourcesOver(IteratorCharacters) :
          /\ lexer = Lexer_new(input)
          /\ iter = [lexer |-> Lexer_new(input), items |-> <<>>, ended |-> FALSE]
    /\ calls = <<>>
    /\ operands = None
    /\ applied = None
    /\ toks = <<>>
    /\ pos = 1
    /\ statements = <<>>
    /\ pstatus = "unused"
    /\ perr = None
    /\ program = None
    /\ idx = 0
    /\ env = None
    /\ result = None
    /\ estatus = "idle"
    /\ out = None
    /\ log = <<>>
    /\ overflow_checks = FALSE

IteratorNext ==
    /\ ~iter.ended
    /\ \E r \in {Iterator_next(iter.lexer)} :
          iter' = [lexer |-> r.lexer, items |-> iter.items \o r.item, ended |-> r.last]
    /\ UNCHANGED <<lexer, calls, program, overflow_checks>>
    /\ UNCHANGED parserVars
    /\ UNCHANGED evalVars
    /\ UNCHANGED helperVars

NextIterator == NextToken \/ IteratorNext

SpecIterator == InitIterator /\ [][NextIterator]_vars

----------------------------------------------------------------------------
(* C1: operator precedence and associativity *)

\* the precedence order the claim states, for the binary operators
ClaimPrec(t) ==
    CASE t \in {"EQ", "NOT_EQ"} -> 1
      [] t \in {"LT", "GT"} -> 2
      [] t \in {"PLUS", "MINUS"} -> 3
      [] t \in {"ASTERISK", "SLASH"} -> 4

\* an operand read off the tokens: prefix operators apply to the atom alone
RECURSIVE RefOperand(_, _)
RefOperand(ts, p) ==
    IF ts[p].type \in {"BANG", "MINUS"}
    THEN Bind(RefOperand(ts, p + 1), LAMBDA r :
         [tree |-> PrefixExpression(ts[p].literal, r.tree), next |-> r.next])
    ELSE [tree |-> IF ts[p].type = "INT"
                   THEN IntegerLiteral(DigitVal(ts[p].literal[1]))
                   ELSE Identifier(ts[p].literal),
          next |-> p + 1]

\* the operands and the binary operators of operand (op operand)*, from p on
RECURSIVE RefFlat(_, _)
RefFlat(ts, p) ==
    Bind(RefOperand(ts, p), LAMBDA x :
    IF x.next > Len(ts)
    THEN [operands |-> <<x.tree>>, ops |-> <<>>]
    ELSE Bind(RefFlat(ts, x.next + 1), LAMBDA rest :
         [operands |-> <<x.tree>> \o rest.operands,
          ops |-> <<ts[x.next]>> \o rest.ops]))

\* operands lo..hi grouped: the root is the last of the operators of lowest
\* precedence, so tighter operators group first and equal ones to the left
RECURSIVE RefGroup(_, _, _, _)
RefGroup(xs, ops, lo, hi) ==
    IF lo = hi THEN xs[lo]
    ELSE Bind(CHOOSE k \in lo..(hi - 1) :
                 /\ \A j \in lo..(hi - 1) :
                        ClaimPrec(ops[k].type) <= ClaimPrec(ops[j].type)
                 /\ \A j \in (k + 1)..(hi - 1) :
                        ClaimPrec(ops[k].type) < ClaimPrec(ops[j].type),
              LAMBDA low :
         InfixExpression(RefGroup(xs, ops, lo, low), ops[low].literal,
                         RefGroup(xs, ops, low + 1, hi)))

\* C1: an operator expression parses, and to the tree in which operands are
\* grouped by precedence (equality < relational < sum < product < prefix),
\* equal precedence to the left: a op1 b op2 c is ((a op1 b) op2 c) when
\* prec(op1) >= prec(op2) and (a op1 (b op2 c)) otherwise
C1_Precedence ==
    \A f \in {RefFlat(toks, 1)} :
       /\ pstatus # "err"
       /\ pstatus = "ok" =>
            /\ program.statements =
                  <<ExpressionStatement(RefGroup(f.operands, f.ops, 1, Len(f.operands)))>>
            /\ Len(f.ops) = 2 =>
                  program.statements[1].expr =
                     IF ClaimPrec(f.ops[1].type) >= ClaimPrec(f.ops[2].type)
                     THEN InfixExpression(
                             InfixExpression(f.operands[1], f.ops[1].literal, f.operands[2]),
                             f.ops[2].literal, f.operands[3])
                     ELSE InfixExpression(
                             f.operands[1], f.ops[1].literal,
                             InfixExpression(f.operands[2], f.ops[2].literal, f.operands[3]))

C1_Witness ==
    /\ pstatus = "ok"
    /\ toks = <<T_BANG, T_MINUS, T_INT(1), T_PLUS, T_IDENT("a"), T_ASTERISK,
                T_BANG, T_MINUS, T_INT(1)>>
    /\ program.statements[1].expr.operator = <<"+">>
    /\ program.statements[1].expr.right.operator = <<"*">>

----------------------------------------------------------------------------
(* C2: integer arithmetic *)

\* the quotient of a by b # 0 rounded toward zero
TruncQuot(a, b) ==
    CHOOSE q \in -Abs(a)..Abs(a) :
        /\ Abs(q * b) <= Abs(a)
        /\ Abs(a) - Abs(q * b) < Abs(b)
        /\ q # 0 => ((q > 0) <=> ((a > 0) <=> (b > 0)))

\* the decimal number a literal writes
RECURSIVE RefNumber(_, _)
RefNumber(lit, n) ==
    IF n = 0 THEN 0 ELSE RefNumber(lit, n - 1) * 10 + DigitVal(lit[n])

\* Standard arithmetic on the tokens, by the textbook grammar
\*   expr = term {(+|-) term}, term = factor {(*|/) factor},
\*   factor = - factor | INT | ( expr )
\* ok: the tokens from p on start with such a phrase, which ends before pos;
\* def: no literal or intermediate result leaves MinInt..MaxInt and no divisor is 0
RefValue(v, d, p) == [ok |-> TRUE, def |-> d /\ InRange(v), val |-> v, pos |-> p]
RefReject == [ok |-> FALSE, def |-> FALSE, val |-> 0, pos |-> 0]

RECURSIVE RefExpr(_, _)
RECURSIVE RefExprRest(_, _)
RECURSIVE RefTerm(_, _)
RECURSIVE RefTermRest(_, _)
RECURSIVE RefFactor(_, _)

RefFactor(ts, p) ==
    IF p > Len(ts) THEN RefReject
    ELSE CASE ts[p].type = "MINUS" ->
                Bind(RefFactor(ts, p + 1), LAMBDA f :
                IF ~f.ok THEN f ELSE RefValue(-f.val, f.def, f.pos))
           [] ts[p].type = "INT" ->
                RefValue(RefNumber(ts[p].literal, Len(ts[p].literal)), TRUE, p + 1)
           [] ts[p].type = "LPAREN" ->
                Bind(RefExpr(ts, p + 1), LAMBDA e :
                IF e.ok /\ e.pos <= Len(ts) /\ ts[e.pos].type = "RPAREN"
                THEN RefValue(e.val, e.def, e.pos + 1)
                ELSE RefReject)
           [] OTHER -> RefReject

\* acc: the value of the factors read so far, the next token at acc.pos
RefTermRest(ts, acc) ==
    IF acc.pos <= Len(ts) /\ ts[acc.pos].type \in {"ASTERISK", "SLASH"}
    THEN Bind(RefFactor(ts, acc.pos + 1), LAMBDA f :
         IF ~f.ok THEN f
         ELSE IF ts[acc.pos].type = "ASTERISK"
         THEN RefTermRest(ts, RefValue(acc.val * f.val, acc.def /\ f.def, f.pos))
         ELSE IF f.val = 0 \/ ~acc.def \/ ~f.def
         THEN RefTermRest(ts, RefValue(0, FALSE, f.pos))
         ELSE RefTermRest(ts, RefValue(TruncQuot(acc.val, f.val), TRUE, f.pos)))
    ELSE acc

RefTerm(ts, p) ==
    Bind(RefFactor(ts, p), LAMBDA f : IF ~f.ok THEN f ELSE RefTermRest(ts, f))

RefExprRest(ts, acc) ==
    IF acc.pos <= Len(ts) /\ ts[acc.pos].type \in {"PLUS", "MINUS"}
    THEN Bind(RefTerm(ts, acc.pos + 1), LAMBDA t :
         IF ~t.ok THEN t
         ELSE IF ts[acc.pos].type = "PLUS"
         THEN RefExprRest(ts, RefValue(acc.val + t.val, acc.def /\ t.def, t.pos))
         ELSE RefExprRest(ts, RefValue(acc.val - t.val, acc.def /\ t.def, t.pos)))
    ELSE acc

RefExpr(ts, p) ==
    Bind(RefTerm(ts, p), LAMBDA t : IF ~t.ok THEN t ELSE RefExprRest(ts, t))

\* the value of a source that is one arithmetic expression, with or without a
\* closing semicolon; ok is FALSE for any other source
RefArithmetic(ts) ==
    Bind(RefExpr(ts, 1), LAMBDA r :
    IF /\ r.ok
       /\ \/ r.pos = Len(ts) + 1
          \/ r.pos = Len(ts) /\ ts[r.pos].type = "SEMICOLON"
    THEN r ELSE RefReject)

\* C2: an integer-only arithmetic program whose intermediate results stay in
\* range and whose divisors are not zero parses and evaluates, without error,
\* to the integer of standard arithmetic (usual precedence, left associativity,
\* division truncating toward zero)
C2_Arithmetic ==
    \A r \in {RefArithmetic(toks)} :
        (r.ok /\ r.def) =>
            /\ pstatus # "err"
            /\ estatus \notin {"err", "panic"}
            /\ estatus = "ok" => out = Integer(r.val)

C2_Witness ==
    /\ toks = <<T_MINUS, T_INT(7), T_SLASH, T_INT(2), T_ASTERISK, T_INT(2)>>
    /\ estatus = "ok"
    /\ out = Integer(-6)

----------------------------------------------------------------------------
(* The nodes of a program, and what the evaluator is handed for each *)

RECURSIVE StatementNodes(_)
RECURSIVE ExpressionNodes(_)
RECURSIVE ListNodes(_, _)

\* the statements of a list from the i-th on, each followed by what it holds
ListNodes(ss, i) ==
    IF i > Len(ss) THEN <<>> ELSE StatementNodes(ss[i]) \o ListNodes(ss, i + 1)

StatementNodes(s) ==
    <<s>> \o
    (CASE s.type = "ExpressionStatement" -> ExpressionNodes(s.expr)
       [] s.type = "ReturnStatement" -> ExpressionNodes(s.expr)
       [] s.type = "LetStatement" -> ExpressionNodes(s.value)
       [] s.type = "BlockStatement" -> ListNodes(s.statements, 1)
       [] OTHER -> <<>>)

ExpressionNodes(x) ==
    <<x>> \o
    (CASE x.type = "PrefixExpression" -> ExpressionNodes(x.right)
       [] x.type = "InfixExpression" -> ExpressionNodes(x.left) \o ExpressionNodes(x.right)
       [] x.type = "IfExpression" ->
            ExpressionNodes(x.condition) \o StatementNodes(x.consequence)
            \o (IF x.alternative # None THEN StatementNodes(x.alternative) ELSE <<>>)
       [] OTHER -> <<>>)

\* every statement and expression of the parsed program
ProgramNodes == ListNodes(program.statements, 1)

\* the program is parsed and its evaluation has an environment
Evaluating == pstatus = "ok" /\ estatus # "idle"

\* the names the generated sources use
Names == {T_IDENT(c).literal : c \in {"a", "b", "c"}}

----------------------------------------------------------------------------
(* C3: a return-wrapped value ends the statement list it appears in *)

\* the outcome of a block that holds only the first i statements of ss
BlockUpTo(ss, i, e) == eval_statement(BlockStatement(SubSeq(ss, 1, i)), e, <<>>)

\* the program ended at its idx-th statement, which yielded a ReturnValue
ReturnedAt(i) ==
    /\ estatus = "ok"
    /\ idx = i
    /\ i <= Len(program.statements)

\* C3: when a statement of a statement list evaluates to a return-wrapped
\* value, no later statement of the list is evaluated and the wrapped value
\* goes unchanged to the enclosing list.  For the program's list: a program
\* that ended at its idx-th statement holds a ReturnValue in result, hands out
\* the inner value, and its environment and the history of evaluated nodes are
\* those of the program cut after that statement.  For a block's list, in every
\* environment the program goes through: if the block cut after its i-th
\* statement yields a ReturnValue, the whole block yields the same wrapped
\* value, the same environment and the same history of evaluated nodes.
C3_ReturnStops ==
    /\ \A i \in 1..Len(statements) :
          ReturnedAt(i) =>
             /\ result.kind = "ReturnValue"
             /\ out = result.obj
             /\ \A cut \in {eval_program(Program(SubSeq(program.statements, 1, i)))} :
                   /\ cut.tag = "ok"
                   /\ cut.val = out
                   /\ cut.env = env
                   /\ cut.log = log
    /\ Evaluating =>
          \A k \in DOMAIN ProgramNodes :
             ProgramNodes[k].type = "BlockStatement" =>
                \A i \in 1..Len(ProgramNodes[k].statements) :
                   \A cut \in {BlockUpTo(ProgramNodes[k].statements, i, env)} :
                      (cut.tag = "ok" /\ cut.val.kind = "ReturnValue") =>
                         \A whole \in {eval_statement(ProgramNodes[k], env, <<>>)} :
                            /\ whole.tag = "ok"
                            /\ whole.val = cut.val
                            /\ whole.env = cut.env
                            /\ Tail(whole.log) = Tail(cut.log)

\* `if (true) { if (true) { return 2; }; return 1; }; let a = 6;` ends with 2
\* at its first statement and binds nothing
C3_Witness ==
    /\ toks = S_expr(S_if(<<T_TRUE>>, S_expr(S_if(<<T_TRUE>>, S_return(<<T_INT(2)>>)))
                                       \o S_return(<<T_INT(1)>>)))
              \o S_let("a", <<T_INT(6)>>)
    /\ ReturnedAt(1)
    /\ Len(program.statements) = 2
    /\ out = Integer(2)
    /\ Environment_get(env, T_IDENT("a").literal) = None

----------------------------------------------------------------------------
(* C4: what eval_program hands to its caller *)

\* C4: the value eval_program hands to the caller on success is never a
\* return-wrapper
C4_NeverWrapped == estatus = "ok" => out.kind # "ReturnValue"

----------------------------------------------------------------------------
(* C5: let *)

\* no let statement is among the nodes of the expression x
NoLetIn(x) ==
    \A j \in DOMAIN ExpressionNodes(x) : ExpressionNodes(x)[j].type # "LetStatement"

\* the let statement s, evaluated in e to r, yields null and makes a lookup of
\* its name return the value v of its expression
LetBinds(s, r, v) ==
    /\ r.val = Null
    /\ v.tag = "ok"
    /\ Environment_get(r.env, s.name) = v.val
    /\ \A f \in {eval_expression(Identifier(s.name), r.env, <<>>)} :
          f.tag = "ok" /\ f.val = v.val /\ f.env = r.env

\* C5: a successfully evaluated `let n = e;` yields null as its own statement
\* value, makes a later lookup of n return the value e had when the let was
\* evaluated, and leaves the bindings of all other names as the evaluation of
\* e left them: unchanged when e executes no let, while a let in an if-block
\* that e executes has bound its own name in the same environment.  Checked
\* for every let of the program in every environment the program goes through.
C5_Let ==
    Evaluating =>
       \A k \in DOMAIN ProgramNodes :
          ProgramNodes[k].type = "LetStatement" =>
             \A r \in {eval_statement(ProgramNodes[k], env, <<>>)} :
                r.tag = "ok" =>
                   \A v \in {eval_expression(ProgramNodes[k].value, env, <<>>)} :
                      /\ LetBinds(ProgramNodes[k], r, v)
                      /\ \A n \in Names \ {ProgramNodes[k].name} :
                            /\ Environment_get(r.env, n) = Environment_get(v.env, n)
                            /\ NoLetIn(ProgramNodes[k].value) =>
                                  Environment_get(r.env, n) = Environment_get(env, n)

\* after `let a = 5; let b = a; let a = 7;` the program has yielded null, b is
\* 5, the value a had when b was bound, and a is 7
C5_Witness ==
    /\ toks = S_let("a", <<T_INT(5)>>) \o S_let("b", <<T_IDENT("a")>>)
              \o S_let("a", <<T_INT(7)>>)
    /\ estatus = "ok"
    /\ out = Null
    /\ Environment_get(env, T_IDENT("a").literal) = Integer(7)
    /\ Environment_get(env, T_IDENT("b").literal) = Integer(5)

\* C5 as it was stated: a successfully evaluated let leaves the bindings of
\* all other names unchanged, whatever its expression
C5_OthersUnchanged ==
    Evaluating =>
       \A k \in DOMAIN ProgramNodes :
          ProgramNodes[k].type = "LetStatement" =>
             \A r \in {eval_statement(ProgramNodes[k], env, <<>>)} :
                r.tag = "ok" =>
                   \A v \in {eval_expression(ProgramNodes[k].value, env, <<>>)} :
                      /\ LetBinds(ProgramNodes[k], r, v)
                      /\ \A n \in Names \ {ProgramNodes[k].name} :
                            Environment_get(r.env, n) = Environment_get(env, n)

----------------------------------------------------------------------------
(* C6: an error ends the evaluation *)

StatementTypes ==
    {"ExpressionStatement", "ReturnStatement", "LetStatement", "BlockStatement"}

\* the evaluation of the node x in e, from an empty history
Eval(x, e) ==
    IF x.type \in StatementTypes
    THEN eval_statement(x, e, <<>>)
    ELSE eval_expression(x, e, <<>>)

\* whole ends like part, which was evaluated after the history pre
EndsLike(whole, part, pre) ==
    /\ whole.tag = part.tag
    /\ whole.val = part.val
    /\ whole.env = part.env
    /\ whole.log = pre \o part.log

\* the node x, evaluated in e, ends with the first error among the nodes it
\* evaluates, in the environment it had then and with nothing evaluated after
FirstError(x, e) ==
    CASE x.type \in {"ExpressionStatement", "ReturnStatement"} ->
            \A v \in {Eval(x.expr, e)} :
               v.tag = "err" => EndsLike(Eval(x, e), v, <<x>>)
      [] x.type = "LetStatement" ->
            \A v \in {Eval(x.value, e)} :
               v.tag = "err" => EndsLike(Eval(x, e), v, <<x>>)
      [] x.type = "PrefixExpression" ->
            \A v \in {Eval(x.right, e)} :
               v.tag = "err" => EndsLike(Eval(x, e), v, <<x>>)
      [] x.type = "InfixExpression" ->
            \A l \in {Eval(x.left, e)} :
               /\ l.tag = "err" => EndsLike(Eval(x, e), l, <<x>>)
               /\ l.tag = "ok" =>
                     \A r \in {Eval(x.right, l.env)} :
                        r.tag = "err" => EndsLike(Eval(x, e), r, <<x>> \o l.log)
      [] x.type = "IfExpression" ->
            \A c \in {Eval(x.condition, e)} :
               c.tag = "err" => EndsLike(Eval(x, e), c, <<x>>)
      [] x.type = "BlockStatement" ->
            \A i \in 1..Len(x.statements) :
               \A before \in {BlockUpTo(x.statements, i - 1, e)} :
                  (before.tag = "ok" /\ before.val.kind # "ReturnValue") =>
                     \A s \in {Eval(x.statements[i], before.env)} :
                        s.tag = "err" => EndsLike(Eval(x, e), s, <<x>> \o Tail(before.log))
      [] OTHER -> TRUE

\* the identifier x is not bound in e and its evaluation fails
UnboundFails(x, e) ==
    (x.type = "Identifier" /\ Environment_get(e, x.name) = None) =>
       Eval(x, e) = [tag |-> "err",
                     val |-> [msg |-> "identifier not found", name |-> x.name],
                     env |-> e, log |-> <<x>>]

\* C6: if the evaluation of a statement or sub-expression produces an error,
\* eval_program returns exactly that error, the first in evaluation order, and
\* no value; no statement after the failing one is evaluated and no let
\* binding is made after the failure.  For the program: a failed run stands at
\* the failing statement, hands out an error, and its environment and history
\* of evaluated nodes are those of the program cut after the failing
\* statement.  For every node of the program, in every environment the
\* program goes through: when a node it evaluates fails, the node ends with
\* that error, that environment and that history.
C6_ErrorAborts ==
    /\ estatus = "err" =>
          /\ idx <= Len(program.statements)
          /\ "msg" \in DOMAIN out
          /\ \A cut \in {eval_program(Program(SubSeq(program.statements, 1, idx)))} :
                /\ cut.tag = "err"
                /\ cut.val = out
                /\ cut.env = env
                /\ cut.log = log
    /\ estatus = "running" /\ idx <= Len(program.statements) =>
          \A s \in {Eval(program.statements[idx], env)} :
             s.tag = "err" =>
                \A whole \in {eval_program_from(program.statements, idx, result, env, <<>>)} :
                   EndsLike(whole, s, <<>>)
    /\ Evaluating =>
          \A k \in DOMAIN ProgramNodes :
             /\ FirstError(ProgramNodes[k], env)
             /\ UnboundFails(ProgramNodes[k], env)

\* `let a = 1; { let b = 3; a + c; let b = 4; }; let b = 2;` fails at its second
\* statement on the unbound c, with b bound to 3
C6_Witness ==
    /\ toks = S_let("a", <<T_INT(1)>>)
              \o S_block(S_let("b", <<T_INT(3)>>)
                         \o S_expr(S_infix(<<T_IDENT("a")>>, T_PLUS, <<T_IDENT("c")>>))
                         \o S_let("b", <<T_INT(4)>>))
              \o S_let("b", <<T_INT(2)>>)
    /\ estatus = "err"
    /\ idx = 2
    /\ out = [msg |-> "identifier not found", name |-> T_IDENT("c").literal]
    /\ Environment_get(env, T_IDENT("b").literal) = Integer(3)

----------------------------------------------------------------------------
(* C9: truthiness *)

\* the coercion as the claim states it: a Boolean, or None where it fails
RECURSIVE ClaimCoercion(_)
ClaimCoercion(o) ==
    IF o.kind = "Integer" THEN Boolean(o.int # 0)
    ELSE IF o.kind = "Boolean" THEN o
    ELSE IF o.kind = "Null" THEN Boolean(FALSE)
    ELSE IF o.kind = "ReturnValue" THEN ClaimCoercion(o.obj)
    ELSE None

----------------------------------------------------------------------------
(* C8: if *)

\* C8: evaluating an if-expression evaluates the condition once, coerces it
\* to boolean and then evaluates exactly one branch: the consequence when the
\* coercion is true, the alternative when it is false and there is one, and
\* nothing, yielding null, when it is false and there is none.  Checked for
\* every if-expression of the program in every environment the program goes
\* through: the outcome, the environment and the history of evaluated nodes
\* are those of the condition followed by those of the branch alone.
C8_If ==
    Evaluating =>
       \A k \in DOMAIN ProgramNodes :
          ProgramNodes[k].type = "IfExpression" =>
             \A c \in {Eval(ProgramNodes[k].condition, env)} :
                (c.tag = "ok" /\ ClaimCoercion(c.val) # None) =>
                   \A whole \in {Eval(ProgramNodes[k], env)} :
                      IF ClaimCoercion(c.val) = Boolean(TRUE)
                      THEN EndsLike(whole, Eval(ProgramNodes[k].consequence, c.env),
                                    <<ProgramNodes[k]>> \o c.log)
                      ELSE IF ProgramNodes[k].alternative # None
                      THEN EndsLike(whole, Eval(ProgramNodes[k].alternative, c.env),
                                    <<ProgramNodes[k]>> \o c.log)
                      ELSE whole = Ok(Null, c.env, <<ProgramNodes[k]>> \o c.log)

\* `if (true) { 1; } else { c; };` yields 1: the branch with the unbound c is
\* not evaluated, and the if-expression, its condition, the block, its
\* statement and the literal are all that is
C8_Witness ==
    /\ toks = S_expr(S_ifelse(<<T_TRUE>>, S_expr(<<T_INT(1)>>), S_expr(<<T_IDENT("c")>>)))
    /\ estatus = "ok"
    /\ out = Integer(1)
    /\ Len(log) = 6

----------------------------------------------------------------------------
(* C7, C9, C10: the operator helpers *)

\* the helper f was applied
Called(f) == applied # None /\ applied.fn = f

Kinds(l, r) == <<l.kind, r.kind>>
SameKinds == {<<"Integer", "Integer">>, <<"Boolean", "Boolean">>, <<"Null", "Null">>}

IsInfixErr(res, m) ==
    res = PErr([msg |-> m, left |-> operands.left, operator |-> operands.operator,
                right |-> operands.right])

\* C7: unless the operands are both integers, both booleans or both null, an
\* infix expression is a "type mismatch" error whatever the operator; on two
\* booleans or two nulls == and != yield the structural (in)equality and
\* every other operator an "unknown operator" error; on two integers
\* < > == != yield the comparison
C7_Infix ==
    Called("eval_infix_expression") =>
       /\ Kinds(operands.left, operands.right) \notin SameKinds =>
             IsInfixErr(applied.res, "type mismatch")
       /\ Kinds(operands.left, operands.right) \in SameKinds \ {<<"Integer", "Integer">>} =>
             IF operands.operator = T_EQ.literal
             THEN applied.res = POk(Boolean(operands.left = operands.right))
             ELSE IF operands.operator = T_NOT_EQ.literal
             THEN applied.res = POk(Boolean(operands.left # operands.right))
             ELSE IsInfixErr(applied.res, "unknown operator")
       /\ Kinds(operands.left, operands.right) = <<"Integer", "Integer">> =>
             /\ operands.operator = T_LT.literal =>
                   applied.res = POk(Boolean(operands.left.int < operands.right.int))
             /\ operands.operator = T_GT.literal =>
                   applied.res = POk(Boolean(operands.left.int > operands.right.int))
             /\ operands.operator = T_EQ.literal =>
                   applied.res = POk(Boolean(operands.left.int = operands.right.int))
             /\ operands.operator = T_NOT_EQ.literal =>
                   applied.res = POk(Boolean(operands.left.int # operands.right.int))

\* a return-wrapper around 1 == the integer 1 is a type mismatch
C7_Witness ==
    /\ Called("eval_infix_expression")
    /\ operands = [operator |-> T_EQ.literal, left |-> ReturnValue(Integer(1)),
                   right |-> Integer(1)]
    /\ applied.res.tag = "err"
    /\ applied.res.val.msg = "type mismatch"

\* C9: the coercion maps integer 0 to false and every other integer to true, a
\* boolean to itself, null to false, a return-wrapper to the coercion of its
\* inner value, and fails with a coercion error for every other kind of
\* value; prefix ! yields the negation of that coercion, and fails where the
\* coercion fails, so ! applied to the result of ! is the coercion
C9_Truthiness ==
    /\ Called("cast_to_boolean") =>
          IF ClaimCoercion(operands.right) # None
          THEN applied.res = CastOk(ClaimCoercion(operands.right))
          ELSE /\ ~applied.res.ok
               /\ applied.res.err.msg = "cannot cast to boolean"
    /\ Called("eval_bang_prefix_expression") =>
          IF ClaimCoercion(operands.right) # None
          THEN /\ applied.res = POk(Boolean(~ClaimCoercion(operands.right).bool))
               /\ eval_bang_prefix_expression(applied.res.val)
                     = POk(ClaimCoercion(operands.right))
          ELSE /\ applied.res.tag = "err"
               /\ applied.res.val.msg = "cannot cast to boolean"

\* ! applied to a return-wrapper around the integer 0 is true
C9_Witness ==
    /\ Called("eval_bang_prefix_expression")
    /\ operands.right = ReturnValue(Integer(0))
    /\ applied.res = POk(Boolean(TRUE))

IsMinusErr(res) ==
    res = PErr([msg |-> "cannot use '-' operator on", obj |-> operands.right])

\* C10: prefix - applied to an integer n other than i64::MIN yields the
\* integer -n; applied to i64::MIN, whose negation is no i64, it panics where
\* overflow is checked and yields i64::MIN where it is not; applied to a
\* value of any other kind it fails with "cannot use '-' operator on" that
\* value, and never coerces its operand
C10_Minus ==
    Called("eval_minus_prefix_operator_expression") =>
       IF operands.right.kind = "Integer"
       THEN IF operands.right.int # MinInt
            THEN applied.res = POk(Integer(-operands.right.int))
            ELSE IF overflow_checks
            THEN applied.res.tag = "panic"
            ELSE applied.res = POk(Integer(MinInt))
       ELSE IsMinusErr(applied.res)

\* - applied to i64::MIN panics where overflow is checked
C10_Witness ==
    /\ Called("eval_minus_prefix_operator_expression")
    /\ operands.right = Integer(MinInt)
    /\ overflow_checks
    /\ applied.res.tag = "panic"

\* C10 as it was stated: prefix - applied to an integer n yields the integer
\* -n, and applied to any other kind of value fails
C10_AlwaysNegates ==
    Called("eval_minus_prefix_operator_expression") =>
       IF operands.right.kind = "Integer"
       THEN applied.res = POk(Integer(-operands.right.int))
       ELSE IsMinusErr(applied.res)

----------------------------------------------------------------------------
(* C11: division by zero *)

\* the statement the run stands at is an expression statement whose
\* expression is a division, its operands evaluate to integers in env and
\* the right one to 0
DividesByZero ==
    /\ Evaluating
    /\ idx <= Len(program.statements)
    /\ program.statements[idx].type = "ExpressionStatement"
    /\ program.statements[idx].expr.type = "InfixExpression"
    /\ program.statements[idx].expr.operator = T_SLASH.literal
    /\ \E l \in {Eval(program.statements[idx].expr.left, env)} :
          /\ l.tag = "ok"
          /\ l.val.kind = "Integer"
          /\ Eval(program.statements[idx].expr.right, l.env).tag = "ok"
          /\ Eval(program.statements[idx].expr.right, l.env).val = Integer(0)

\* C11: a run that has evaluated an integer division whose right operand
\* evaluates to 0 has ended with an error value handed to the caller, and not
\* with a panic
C11_DivisionByZeroIsError ==
    (DividesByZero /\ estatus # "running") => estatus = "err"

----------------------------------------------------------------------------
(* C12: calls *)

\* the program ends with `let f = fn(...) {...}; f(...);`
EndsWithCall ==
    /\ Len(program.statements) >= 2
    /\ program.statements[Len(program.statements) - 1].type = "LetStatement"
    /\ program.statements[Len(program.statements) - 1].value.type = "FunctionLiteral"
    /\ program.statements[Len(program.statements)].type = "ExpressionStatement"
    /\ program.statements[Len(program.statements)].expr.type = "CallExpression"

\* the function literal, the call, and the environment the literal is
\* evaluated in
CalledLiteral == program.statements[Len(program.statements) - 1].value
TheCall == program.statements[Len(program.statements)].expr
DefiningEnv ==
    eval_program(Program(SubSeq(program.statements, 1, Len(program.statements) - 2))).env

\* a fresh scope inside outer that binds the parameters ps to the values of
\* the arguments as, evaluated in the caller's environment e
ChildEnv(outer, ps, as, e) ==
    [store |-> [n \in {ps[i].name : i \in DOMAIN ps} |->
                  Eval(as[CHOOSE i \in DOMAIN ps : ps[i].name = n], e).val],
     outer |-> outer]

Unwrapped(o) == IF o.kind = "ReturnValue" THEN o.obj ELSE o

\* C12: a call of a function value evaluates the body in a fresh child
\* environment of the environment the literal was evaluated in, with each
\* parameter bound to its argument, and yields the body's value with a
\* return-wrapper removed: a run of `let f = fn(x, y) {...}; f(i, j);` ends as
\* the body does in that environment
C12_Call ==
    (pstatus = "ok" /\ estatus \in {"ok", "err"} /\ EndsWithCall) =>
       \A r \in {eval_statement(CalledLiteral.body,
                                ChildEnv(DefiningEnv, CalledLiteral.parameters,
                                         TheCall.arguments, env),
                                <<>>)} :
          /\ estatus = r.tag
          /\ out = IF r.tag = "ok" THEN Unwrapped(r.val) ELSE r.val

----------------------------------------------------------------------------
(* C13: chains of environments *)

\* the stores of a chain, the innermost first
RECURSIVE Scopes(_)
Scopes(e) == IF e.outer = None THEN <<e.store>> ELSE <<e.store>> \o Scopes(e.outer)

\* the indices of the scopes that bind the name
Binding(scopes, name) == {i \in DOMAIN scopes : name \in DOMAIN scopes[i]}

\* the binding of the name in the innermost scope that has one, or None
Innermost(scopes, name) ==
    IF Binding(scopes, name) = {} THEN None
    ELSE scopes[CHOOSE i \in Binding(scopes, name) :
                   \A j \in Binding(scopes, name) : i <= j][name]

\* C13: get(name) returns the binding of name in the innermost scope of the
\* chain that binds it, or nothing when no scope binds it; set(name, v) adds
\* or replaces the binding in the innermost scope only, leaves every
\* enclosing scope and every other name's binding as it was, and a get(name)
\* after it returns v
C13_Environment ==
    /\ Called("Environment_get") =>
          applied.res = Innermost(Scopes(operands.env), operands.name)
    /\ Called("Environment_set") =>
          /\ Len(Scopes(applied.res)) = Len(Scopes(operands.env))
          /\ \A i \in 2..Len(Scopes(operands.env)) :
                Scopes(applied.res)[i] = Scopes(operands.env)[i]
          /\ DOMAIN Scopes(applied.res)[1]
                = DOMAIN Scopes(operands.env)[1] \cup {operands.name}
          /\ Scopes(applied.res)[1][operands.name] = operands.value
          /\ \A n \in DOMAIN Scopes(operands.env)[1] \ {operands.name} :
                Scopes(applied.res)[1][n] = Scopes(operands.env)[1][n]
          /\ Environment_get(applied.res, operands.name) = operands.value
          /\ \A n \in EnvNames \ {operands.name} :
                Environment_get(applied.res, n) = Environment_get(operands.env, n)

\* set(a, 2) on a chain whose enclosing scope alone binds a, to 1: the inner
\* scope now binds a to 2 and the enclosing scope still binds it to 1
C13_Witness ==
    /\ Called("Environment_set")
    /\ operands.name = T_IDENT("a").literal
    /\ operands.value = Integer(2)
    /\ operands.env.outer # None
    /\ DOMAIN operands.env.store = {}
    /\ Environment_get(operands.env, T_IDENT("a").literal) = Integer(1)
    /\ Environment_get(applied.res, T_IDENT("a").literal) = Integer(2)
    /\ Environment_get(applied.res.outer, T_IDENT("a").literal) = Integer(1)

----------------------------------------------------------------------------
(* C14: printing and parsing again *)

\* C14: the printed text of a parsed program is itself accepted by
\* parse_program, and printing the program parsed from it yields the same
\* text
C14_RoundTrip ==
    Called("parse_program") =>
       /\ applied.res.ok
       /\ fmt_Program(applied.res.val) = applied.text

----------------------------------------------------------------------------
(* C15: malformed let statements *)

\* the first `let` of the source
HasLet == \E k \in DOMAIN toks : toks[k].type = "LET"
FirstLet ==
    CHOOSE k \in DOMAIN toks :
       toks[k].type = "LET" /\ \A j \in 1..(k - 1) : toks[j].type # "LET"

\* what the let at k lacks, as the expected kind and the kind found: an
\* identifier after `let`, `=` after the name, or `;` directly after the
\* value expression; <<>> when it lacks none of them
LetFault(ts, k) ==
    IF TokAt(ts, k + 1).type # "IDENT" THEN <<"IDENT", TokAt(ts, k + 1).type>>
    ELSE IF TokAt(ts, k + 2).type # "ASSIGN" THEN <<"ASSIGN", TokAt(ts, k + 2).type>>
    ELSE Bind(parse_expression(ts, k + 3, LOWEST), LAMBDA value :
         IF value.ok /\ TokAt(ts, value.pos + 1).type # "SEMICOLON"
         THEN <<"SEMICOLON", TokAt(ts, value.pos + 1).type>>
         ELSE <<>>)

\* C15: parse_program returns an error, and no Program, for a let statement
\* in which the token after `let` is not an identifier, the token after the
\* name is not `=`, or the value expression is not directly followed by `;`,
\* and the error names the expected token kind and the kind found.  Checked
\* on the first let of each source, at the top level, after a statement and
\* in the block of a block statement, an if-expression and a function.
C15_LetErrors ==
    (pstatus # "parsing" /\ HasLet) =>
       \A fault \in {LetFault(toks, FirstLet)} :
          fault # <<>> =>
             /\ pstatus = "err"
             /\ program = None
             /\ perr = ExpectedErr(fault[1], fault[2])

\* `let x 5 5;` is rejected: ASSIGN expected, INT found
C15_Witness ==
    /\ toks = <<T_LET, T_IDENT("x"), T_INT(5), T_INT(5), T_SEMICOLON>>
    /\ pstatus = "err"
    /\ perr = ExpectedErr("ASSIGN", "INT")

----------------------------------------------------------------------------
(* C16: a token no expression can start with *)

\* the kinds an expression can start with, and the kinds a statement that is
\* not an expression statement starts with (or the input ends with)
ExpressionStarts ==
    {"IDENT", "INT", "TRUE", "FALSE", "BANG", "MINUS", "LPAREN", "IF", "FUNCTION"}
OtherStatementStarts == {"LET", "RETURN", "LBRACE", "EOF"}

\* an expression must start at token k + 1: the first k tokens are complete
\* statements and token k + 1 starts no other statement, or the first k tokens
\* end where an operand is due
MustStartAt(k) ==
    \/ /\ SubSeq(toks, 1, k) \in StatementContexts
       /\ TokAt(toks, k + 1).type \notin OtherStatementStarts
    \/ SubSeq(toks, 1, k) \in OperandContexts

NoPrefixErr(t) == [msg |-> "no prefix parse function for", got |-> t]

\* C16: when the token an expression must start at is of no kind with a prefix
\* parse function, parse_program stops at that token with the one error for
\* it: no Program (and none of the statements parsed before) is returned, and
\* the tokens after it play no part, the same error being returned for the
\* source cut after that token.
C16_NoPrefix ==
    pstatus # "parsing" =>
       \A k \in 0..Len(toks) :
          (MustStartAt(k) /\ TokAt(toks, k + 1).type \notin ExpressionStarts) =>
             /\ pstatus = "err"
             /\ program = None
             /\ perr = NoPrefixErr(TokAt(toks, k + 1).type)
             /\ pos = k + 1
             /\ parse_program(SubSeq(toks, 1, IF k < Len(toks) THEN k + 1 ELSE k))
                   = PError(perr, k + 1)

\* `1; ) ) let let`: the error is the one for the first `)`, the statement `1;`
\* is not returned, and the later errors are not reported
C16_Witness ==
    /\ toks = <<T_INT(1), T_SEMICOLON, T_RPAREN, T_RPAREN, T_LET, T_LET>>
    /\ pstatus = "err"
    /\ program = None
    /\ Len(statements) = 1
    /\ perr = NoPrefixErr("RPAREN")
    /\ pos = 3

----------------------------------------------------------------------------
(* C17: illegal characters *)

HasIllegal == \E k \in DOMAIN toks : toks[k].type = "ILLEGAL"

\* C17: a source whose token stream holds an ILLEGAL token, wherever it
\* stands, makes parse_program return an error and no Program.
C17_IllegalRejected ==
    (pstatus # "parsing" /\ HasIllegal) => (pstatus = "err" /\ program = None)

----------------------------------------------------------------------------
(* C18: blocks end with a closing brace *)

\* the number of blocks open after the first n tokens
RECURSIVE OpenBlocks(_, _)
OpenBlocks(ts, n) ==
    IF n = 0 THEN 0
    ELSE OpenBlocks(ts, n - 1)
         + (IF ts[n].type = "LBRACE" THEN 1 ELSE IF ts[n].type = "RBRACE" THEN -1 ELSE 0)

\* C18: when the input ends inside a block (a block statement, the consequence
\* or the alternative of an if-expression, a function body) before its closing
\* brace, parse_program returns an error and no Program.
C18_BlocksClosed ==
    (pstatus # "parsing" /\ OpenBlocks(toks, Len(toks)) > 0) =>
       (pstatus = "err" /\ program = None)

----------------------------------------------------------------------------
(* C19: the parameter list of a function literal *)

\* the tokens between `fn(` and the `)` that stands before the body
WrittenParameters == SubSeq(toks, 3, Len(toks) - Len(ParameterBody) - 1)

\* identifiers separated by single commas, or nothing
IdentifierList(ps) ==
    \/ ps = <<>>
    \/ /\ Len(ps) % 2 = 1
       /\ \A i \in DOMAIN ps :
             ps[i].type = (IF i % 2 = 1 THEN "IDENT" ELSE "COMMA")

\* C19: parse_program returns a Program exactly for the parameter lists that
\* are identifiers separated by commas (or empty), the parameters of the
\* function literal being these IDENT tokens in source order; a list with a
\* token of another kind, or with a trailing comma, gives an error.
C19_Parameters ==
    pstatus # "parsing" =>
       IF IdentifierList(WrittenParameters)
       THEN /\ pstatus = "ok"
            /\ program.statements[1].expr.type = "FunctionLiteral"
            /\ program.statements[1].expr.parameters =
                  [i \in 1..((Len(WrittenParameters) + 1) \div 2) |->
                      Identifier(WrittenParameters[2 * i - 1].literal)]
       ELSE pstatus = "err" /\ program = None

----------------------------------------------------------------------------
(* C20: the end of the input *)

IsEOF(t) == t = Token("EOF", <<>>)

\* C20: every next_token call returns a token; a token other than the
\* end-of-input token is returned only by one of the first len(source) calls
\* and moves the cursor forward by at least one character; and once the
\* end-of-input token (of empty literal) has been returned, every later call
\* returns it again and leaves position, read_position and symbol as they are.
C20_EndOfInput ==
    /\ ~lexer.panicked
    /\ \A i \in DOMAIN calls :
          /\ calls[i].token # None
          /\ calls[i].token.type = "EOF" => IsEOF(calls[i].token)
          /\ ~IsEOF(calls[i].token) =>
                /\ i <= Len(lexer.input)
                /\ calls[i].after.position > calls[i].before.position
          /\ IsEOF(calls[i].token) =>
                \A j \in DOMAIN calls :
                   j > i => (IsEOF(calls[j].token) /\ calls[j].after = calls[j].before)

\* `f =`: the identifier, the `=`, and then the end-of-input token three times,
\* the Lexer standing still behind the input
C20_Witness ==
    /\ lexer.input = <<"f", " ", "=">>
    /\ Len(calls) = 5
    /\ calls[1].token = Token("IDENT", <<"f">>)
    /\ calls[2].token = Token("ASSIGN", <<"=">>)
    /\ IsEOF(calls[3].token) /\ IsEOF(calls[4].token) /\ IsEOF(calls[5].token)
    /\ lexer = calls[3].before
    /\ lexer.position = 3 /\ lexer.read_position = 4 /\ lexer.symbol = <<>>

----------------------------------------------------------------------------
(* C21: characters of no token *)

\* the characters the claim names: neither whitespace, an operator or a
\* delimiter, an ASCII digit nor an identifier character
OperatorChars == {"=", "+", "-", "!", "*", "/", "<", ">", ",", ";", "(", ")", "{", "}"}
NoTokenChars == (ControlChars \cup AsciiPunctuation) \ (WhitespaceChars \cup OperatorChars)

\* the index of the first character at or after byte offset b that is not
\* whitespace (Len + 1 when there is none)
RECURSIVE FirstSolid(_, _)
FirstSolid(input, k) ==
    IF k <= Len(input) /\ input[k] \in WhitespaceChars
    THEN FirstSolid(input, k + 1) ELSE k
ScanStart(c) == FirstSolid(c.before.input, CharIndex(c.before.input, c.before.position))

\* C21: every next_token call returns a token, and a call that finds a
\* character of no token (a control character or ASCII punctuation that is no
\* operator or delimiter) after the whitespace returns one ILLEGAL token whose
\* literal is that one character and leaves the Lexer at the character right
\* after it.
C21_Illegal ==
    /\ ~lexer.panicked
    /\ \A i \in DOMAIN calls :
          /\ calls[i].token # None
          /\ \A k \in {ScanStart(calls[i])} :
                (k <= Len(lexer.input) /\ lexer.input[k] \in NoTokenChars) =>
                   /\ calls[i].token = Token("ILLEGAL", <<lexer.input[k]>>)
                   /\ calls[i].after.position = ByteOffset(lexer.input, k + 1)
                   /\ calls[i].after.symbol =
                         (IF k < Len(lexer.input) THEN <<lexer.input[k + 1]>> ELSE <<>>)

\* ` _f`: ILLEGAL `_`, then the identifier f
C21_Witness ==
    /\ lexer.input = <<" ", "_", "f">>
    /\ Len(calls) = 2
    /\ calls[1].token = Token("ILLEGAL", <<"_">>)
    /\ calls[1].after.symbol = <<"f">>
    /\ calls[2].token.literal = <<"f">>

----------------------------------------------------------------------------
(* C22: one character of lookahead *)

\* the Lexer stands at the k-th character of its input (behind it for Len + 1)
StandsAt(l, k) ==
    /\ l.position = ByteOffset(l.input, k)
    /\ l.symbol = (IF k <= Len(l.input) THEN <<l.input[k]>> ELSE <<>>)

\* C22: at `=` or `!` followed by `=`, next_token returns one EQ or NOT_EQ
\* token of both characters and goes on behind the second; otherwise it
\* returns ASSIGN or BANG and goes on behind the single character.  So `===`
\* is EQ, ASSIGN and `!==` is NOT_EQ, ASSIGN.
C22_Lookahead ==
    \A i \in DOMAIN calls :
       \A k \in {ScanStart(calls[i])} :
          (k <= Len(lexer.input) /\ lexer.input[k] \in {"=", "!"}) =>
             IF k < Len(lexer.input) /\ lexer.input[k + 1] = "="
             THEN /\ calls[i].token =
                        Token(IF lexer.input[k] = "=" THEN "EQ" ELSE "NOT_EQ",
                              <<lexer.input[k], "=">>)
                  /\ StandsAt(calls[i].after, k + 2)
             ELSE /\ calls[i].token =
                        Token(IF lexer.input[k] = "=" THEN "ASSIGN" ELSE "BANG",
                              <<lexer.input[k]>>)
                  /\ StandsAt(calls[i].after, k + 1)

\* `!==` is NOT_EQ, ASSIGN and then the end of the input
C22_Witness ==
    /\ lexer.input = <<"!", "=", "=">>
    /\ Len(calls) = 3
    /\ calls[1].token = Token("NOT_EQ", <<"!", "=">>)
    /\ calls[2].token = Token("ASSIGN", <<"=">>)
    /\ calls[3].token = Token("EOF", <<>>)

----------------------------------------------------------------------------
(* C23: integer literals *)

\* the index behind the run of characters of the set C that starts at k
RECURSIVE RunEnd(_, _, _)
RunEnd(input, k, C) ==
    IF k <= Len(input) /\ input[k] \in C THEN RunEnd(input, k + 1, C) ELSE k

\* C23: the literal of every INT token is the maximal run of ASCII digits at
\* the place the call starts at, and holds no other character: a numeric
\* character that is not an ASCII digit ends the token.
C23_AsciiDigitsOnly ==
    \A i \in DOMAIN calls :
       (calls[i].token # None /\ calls[i].token.type = "INT") =>
          /\ \A n \in DOMAIN calls[i].token.literal :
                calls[i].token.literal[n] \in AsciiDigits
          /\ calls[i].token.literal =
                SubSeq(lexer.input, ScanStart(calls[i]),
                       RunEnd(lexer.input, ScanStart(calls[i]), AsciiDigits) - 1)

----------------------------------------------------------------------------
(* C24: identifiers *)

\* the characters the claim lets an identifier consist of
IdentifierChar(c) ==
    c \notin AsciiDigits \cup WhitespaceChars \cup ControlChars \cup AsciiPunctuation
IdentifierChars(input) == {input[k] : k \in {j \in DOMAIN input : IdentifierChar(input[j])}}

KeywordTypes == {"FUNCTION", "LET", "TRUE", "FALSE", "IF", "ELSE", "RETURN"}

\* C24: a call that starts at an identifier character returns an identifier
\* (or keyword) token whose literal is the maximal run of identifier
\* characters from there on, whole characters only, and goes on at the
\* character that ends the run: `f1` is an identifier and then INT 1.
C24_Identifier ==
    \A i \in DOMAIN calls :
       \A k \in {ScanStart(calls[i])} :
          (k <= Len(lexer.input) /\ IdentifierChar(lexer.input[k])) =>
             \A e \in {RunEnd(lexer.input, k, IdentifierChars(lexer.input))} :
                /\ calls[i].token.type \in {"IDENT"} \cup KeywordTypes
                /\ calls[i].token.literal = SubSeq(lexer.input, k, e - 1)
                /\ StandsAt(calls[i].after, e)

\* `fé1`: the identifier fé of three bytes, then INT 1
C24_Witness ==
    /\ lexer.input = <<"f", "é", "1">>
    /\ Len(calls) = 2
    /\ calls[1].token = Token("IDENT", <<"f", "é">>)
    /\ calls[1].after.position = 3
    /\ calls[2].token = Token("INT", <<"1">>)

----------------------------------------------------------------------------
(* C25: keywords *)

\* the kind the claim gives a word
ClaimedKind(word) ==
    CASE word = <<"f", "n">> -> "FUNCTION"
      [] word = <<"l", "e", "t">> -> "LET"
      [] word = <<"t", "r", "u", "e">> -> "TRUE"
      [] word = <<"f", "a", "l", "s", "e">> -> "FALSE"
      [] word = <<"i", "f">> -> "IF"
      [] word = <<"e", "l", "s", "e">> -> "ELSE"
      [] word = <<"r", "e", "t", "u", "r", "n">> -> "RETURN"
      [] OTHER -> "IDENT"

\* C25: the token returned for a scanned identifier run has the keyword kind
\* of the words fn, let, true, false, if, else and return, and the kind
\* IDENT for every other word, a word that contains a keyword included.
C25_Keywords ==
    \A i \in DOMAIN calls :
       \A k \in {ScanStart(calls[i])} :
          (k <= Len(lexer.input) /\ IdentifierChar(lexer.input[k])) =>
             calls[i].token.type = ClaimedKind(calls[i].token.literal)

----------------------------------------------------------------------------
(* C26: the Lexer as an Iterator *)

\* C26: the items the iterator yields are the tokens the next_token calls on
\* a fresh Lexer over the same text return, in the same order; none of them
\* is the end-of-input token, none comes at or after the place of the first
\* end-of-input token, and when the iteration has ended every token the
\* calls return beyond the items is the end-of-input token.
C26_Iterator ==
    /\ \A i \in DOMAIN iter.items :
          /\ iter.items[i].type # "EOF"
          /\ i \in DOMAIN calls => calls[i].token = iter.items[i]
    /\ \A i \in DOMAIN calls :
          /\ IsEOF(calls[i].token) => Len(iter.items) < i
          /\ (iter.ended /\ i > Len(iter.items)) => IsEOF(calls[i].token)

\* `f=`: both ways give the identifier and `=`; the iteration has ended and
\* the third call returned the end-of-input token
C26_Witness ==
    /\ lexer.input = <<"f", "=">>
    /\ iter.ended
    /\ iter.items = <<Token("IDENT", <<"f">>), Token("ASSIGN", <<"=">>)>>
    /\ Len(calls) = 3
    /\ IsEOF(calls[3].token)

----------------------------------------------------------------------------
(* C27: the cursor *)

\* the Lexer states read_symbol leads through from l while a symbol is present;
\* next_token passes through some of them between two calls
RECURSIVE AllReads(_)
AllReads(l) ==
    IF l.panicked \/ l.symbol = <<>> THEN {l} ELSE {l} \cup AllReads(read_symbol(l))

CursorInvariant(l) ==
    /\ ~l.panicked
    /\ l.position <= l.read_position
    /\ l.read_position <= ByteOffset(l.input, Len(l.input) + 1) + 1
    /\ l.symbol # <<>> =>
          /\ Sliceable(l.input, l.position)
          /\ Sliceable(l.input, l.read_position)
    /\ l.read_position = ByteOffset(l.input, Len(l.input) + 1) + 1 => l.symbol = <<>>

\* C27: position <= read_position; both are character boundaries of the
\* input while a symbol is present; read_position is len(input) + 1 only when
\* the symbol is absent; and no call has taken a slice out of bounds, which
\* read_symbol or peak_symbol would do if invoked once the symbol is absent.
C27_Cursor ==
    /\ ~lexer.panicked
    /\ \A i \in DOMAIN calls : calls[i].token # None
    /\ \A l \in AllReads(lexer) : CursorInvariant(l)

\* `é =`: behind the two-byte letter, the blank and the `=`, after three calls
\* the Lexer stands behind the input with no symbol
C27_Witness ==
    /\ lexer.input = <<"é", " ", "=">>
    /\ Len(calls) = 3
    /\ lexer.symbol = <<>>
    /\ lexer.position = 4
    /\ lexer.read_position = 5
    /\ calls[2].before.position = 2
    /\ calls[2].before.read_position = 3

----------------------------------------------------------------------------
(* C28: the parser's loops *)

\* how far the current token can be behind the last token: the first
\* end-of-input token, and one more step for each round of an enclosing block
\* loop that the end of the input ends
Overrun ==
    IF \E k \in DOMAIN toks : toks[k].type = "LBRACE"
    THEN Cardinality({k \in DOMAIN toks : toks[k].type = "LBRACE"}) ELSE 1

\* where the parser stands after r: at or after p, and no further
Advanced(r, p) == p <= r.pos /\ r.pos <= Len(toks) + Overrun

\* C28: parse_program ends with a Program or with an error, and its loops make
\* progress: from every token that is not the end of the input, a statement
\* (one round of the statement loop and of the block loop) and an expression
\* (one round of the argument loop) leave the parser at or after the token
\* they started at, the next_token that follows taking it further; an infix
\* or call step (one round of the infix loop) leaves it after the operator;
\* and no loop goes on at the end of the input: the current token is taken
\* behind it only by the next_token that ends a round.
C28_Progress ==
    /\ pos <= Len(toks) + Overrun + 1
    /\ pstatus = "ok" => program = Program(statements)
    /\ pstatus = "err" => (program = None /\ perr # None)
    /\ \A r \in {parse_program(toks)} :
          /\ r.pos <= Len(toks) + Overrun + 1
          /\ pstatus = "ok" => (r.ok /\ r.val = program)
          /\ pstatus = "err" => (~r.ok /\ r.err = perr)
    /\ \A p \in DOMAIN toks :
          /\ Advanced(parse_statement(toks, p), p)
          /\ Advanced(parse_expression(toks, p, LOWEST), p)
          /\ get_infix_parse_fn(toks[p].type) # "None" =>
                \A r \in {parse_infix(toks, p, IntegerLiteral(1))} :
                   Advanced(r, p) /\ (r.ok => r.pos > p)

\* `fn(1,` is read to its end: the parameter loop stops at the end of the
\* input and the error is the missing `)`
C28_Witness ==
    /\ toks = <<T_FUNCTION, T_LPAREN, T_INT(1), T_COMMA>>
    /\ pstatus = "err"
    /\ perr = ExpectedErr("RPAREN", "EOF")
    /\ pos = 5

----------------------------------------------------------------------------
(* C29: the return-wrapper stays inside the evaluator *)

\* the names bound to a return-wrapper value
WrappedNames ==
    IF env = None THEN {}
    ELSE {n \in DOMAIN env.store : env.store[n].kind = "ReturnValue"}

\* the program ended at a statement that only reads a name
EndedAtRead ==
    /\ estatus = "ok"
    /\ idx <= Len(program.statements)
    /\ program.statements[idx].type = "ExpressionStatement"
    /\ program.statements[idx].expr.type = "Identifier"

\* C29: at every point of an evaluation no name of the environment is bound
\* to a return-wrapper value: a let whose value is an if-expression that
\* executes a return does not store the wrapped value, and a later read of
\* the name does not end the program before its last statement.
C29_NoWrappedBinding == WrappedNames = {} /\ ~EndedAtRead

----------------------------------------------------------------------------
(* C30: blocks share the environment of the statements around them *)

\* the let statements a statement executes, in the order it executes them:
\* the let itself, the lets of a block, the lets of the branch that an
\* if-expression with a literal condition takes
RECURSIVE ExecutedLets(_)
RECURSIVE ExecutedLetsOf(_, _)
ExecutedLets(statement) ==
    CASE statement.type = "LetStatement" -> <<statement>>
      [] statement.type = "BlockStatement" ->
            ExecutedLetsOf(statement.statements, Len(statement.statements))
      [] statement.type = "ExpressionStatement" ->
            IF statement.expr.type # "IfExpression"
               \/ statement.expr.condition.type # "Boolean"
            THEN <<>>
            ELSE IF statement.expr.condition.value
            THEN ExecutedLets(statement.expr.consequence)
            ELSE IF statement.expr.alternative # None
            THEN ExecutedLets(statement.expr.alternative)
            ELSE <<>>
      [] OTHER -> <<>>

\* the lets that the first n statements of stmts execute
ExecutedLetsOf(stmts, n) ==
    IF n = 0 THEN <<>>
    ELSE ExecutedLetsOf(stmts, n - 1) \o ExecutedLets(stmts[n])

\* the value of the last let of the name in a sequence of lets of literals
LastLet(lets, n) ==
    Integer(lets[CHOOSE k \in DOMAIN lets :
                    /\ lets[k].name = n
                    /\ \A j \in DOMAIN lets : j > k => lets[j].name # n].value.value)

\* the top-level statements that eval_program is through with
Completed == IF estatus = "running" THEN idx - 1 ELSE Len(program.statements)

\* C30: blocks do not open a new scope: a let executed inside the taken branch
\* of an if-expression, or inside a top-level block, writes to the environment
\* of the surrounding statements. After every statement the one environment
\* binds exactly the names of the lets executed so far, inside blocks or
\* outside, each to the value of the last of them: the name stays bound after
\* the block ends and a binding made before the block is overwritten.
C30_BlocksShareEnvironment ==
    (estatus \in {"running", "ok"}) =>
       \A lets \in {ExecutedLetsOf(program.statements, Completed)} :
          /\ env.outer = None
          /\ DOMAIN env.store = {lets[k].name : k \in DOMAIN lets}
          /\ \A n \in DOMAIN env.store : env.store[n] = LastLet(lets, n)

\* `let a = 0; if (true) { let a = 2; }; a;` ends with 2
C30_Witness ==
    /\ toks = S_let("a", <<T_INT(0)>>)
              \o S_expr(S_if(<<T_TRUE>>, S_let("a", <<T_INT(2)>>)))
              \o S_expr(<<T_IDENT("a")>>)
    /\ estatus = "ok"
    /\ out = Integer(2)
    /\ env.store[<<"a">>] = Integer(2)

====
